---- MODULE Spec2Model ----
(***************************************************************************)
(* Model of the diagnostic tool's core:                                    *)
(*   - ExecutionEngine (src/src/index.js): the sequential batch run with   *)
(*     bounded retry, continue-on-error and progress reporting;            *)
(*   - QueryParser (src/unnamed/part_002, src/src/core/QueryParser.js):    *)
(*     segmentation of a query pack into numbered records.                 *)
(***************************************************************************)
EXTENDS Integers, Sequences, FiniteSets, TLC

(***************************************************************************)
(* Bounds of the model.                                                    *)
(***************************************************************************)
\* longest record list handed to executeQueries
MaxRecords == 2
\* largest maxRetries value carried by the options object
MaxRetriesOpt == 1
\* clock ticks one executor round trip takes
ExecTicks == 1

(***************************************************************************)
(* JavaScript values.                                                      *)
(***************************************************************************)
\* a JavaScript value is a tagged pair; v is the number, or 1/0 for a boolean
Num(n) == [t |-> "number", v |-> n]

Bool(b) == [t |-> "boolean", v |-> IF b THEN 1 ELSE 0]

\* the value of an option that is absent from the options object
Undefined == [t |-> "undefined", v |-> 0]

\* operands for which `a || b` yields b, and `!a` yields true
Falsy(x) == x.t = "undefined" \/ x.v = 0

\* a || b
JsOr(a, b) == IF Falsy(a) THEN b ELSE a

(***************************************************************************)
(* Inputs of the engine.                                                   *)
(***************************************************************************)
\* records as the parser produces them (id, name, section, description)
QueryPool ==
    { [id |-> "glen-berry-1", name |-> "Version Info",
       section |-> "Instance Information", description |-> "Version Info"],
      [id |-> "glen-berry-2", name |-> "Wait Stats",
       section |-> "Performance", description |-> "Wait Stats"] }

\* the lists of up to MaxRecords records in which the two records alternate
RecordLists ==
    { [ k \in 1..n |-> IF k % 2 = 1 THEN first ELSE CHOOSE q \in QueryPool : q # first ] :
        n \in 0..MaxRecords, first \in QueryPool }

\* the options object given to the constructor
Configs ==
    [ timeout : {Num(30000)},
      maxRetries : {Num(n) : n \in 0..MaxRetriesOpt} \cup {Undefined},
      retryDelay : {Num(0), Num(1000), Undefined},
      continueOnError : {Bool(TRUE), Bool(FALSE), Undefined} ]

\* what connectionManager.executeQuery resolves to
ExecutorResults ==
    { [kind |-> "array", rows |-> <<"row1", "row2">>],
      [kind |-> "undefined", rows |-> <<>>] }

\* messages of the errors the executor rejects with
ExecutorMessages == { <<"Timeout">>, <<"Connection lost">> }

\* message of an error raised by the progress observer
ObserverMessage == <<"observer failed">>

\* an error value: its message and, as its identity, where it was created
Error(message, by, idx, att) == [message |-> message, by |-> by, idx |-> idx, att |-> att]

NoError == Error(<<>>, "none", 0, 0)

VARIABLES
    queries,           \* argument of executeQueries
    config,            \* this.config
    progressCallback,  \* TRUE iff an observer was supplied
    pc,                \* position of the run: loop, exec, sleep, returned, raised
    i,                 \* loop index of executeQueries (0-based)
    retries,           \* local of executeQuery
    results,           \* local of executeQueries; the return value
    now,               \* Date.now()
    queryStartTime,    \* local of executeQueries
    inFlight,          \* executor requests dispatched and not yet settled
    thrown,            \* the error executeQueries rejected with
    trace,             \* history: progress calls, executor calls, outcomes
    sqlContent,        \* argument of parseGlenBerryQueries: the pack text
    queryBlocks,       \* local of parseGlenBerryQueries: the split text
    blockIndex,        \* loop index of parseGlenBerryQueries (0-based)
    queryNumber,       \* local of parseGlenBerryQueries
    parsed,            \* local `queries` of parseGlenBerryQueries
    accepted,          \* history: 0-based indices of the blocks that gave a record
    ppc,               \* position of the parse: idle, split, blocks, done
    files,             \* the query-packs directory: what lies under each filename
    requestedVersion,  \* argument of loadQueries
    sqlServerVersion,  \* argument of the running loadGlenBerryQueries
    depth,             \* loadGlenBerryQueries invocations entered so far
    loadedQueries,     \* what loadGlenBerryQueries returned to loadQueries
    thisQueries,       \* this.queries, the value loadQueries returns
    packTrace,         \* history: lookups, fetches and fallbacks of the chain
    lpc,               \* position of the load: idle, local, download, fetching, loaded, done
    sections,          \* this.sections: the Map as its entries in insertion order
    parserCalls,       \* the loadQueries / getSections calls on one QueryParser instance
    isConnected,       \* ConnectionManager: this.isConnected
    pool,              \* ConnectionManager: this.pool; 0 is null
    pending,           \* ConnectionManager: the awaits that have not settled
    started,           \* ConnectionManager: methods called so far
    connTrace,         \* history: what the ConnectionManager calls did
    inDescription,     \* argument of categorizeQuery
    inBlockA,          \* a block handed to extractQueryInfo
    inBlockB,          \* a second block handed to extractQueryInfo
    inQuery,           \* argument of estimateQueryDuration
    outSection,        \* what categorizeQuery(inDescription, inBlockA) returned
    outDuration,       \* what estimateQueryDuration(inQuery) returned
    outInfoA,          \* what extractQueryInfo returned for inBlockA
    outInfoB,          \* what extractQueryInfo returned for inBlockB
    cpc                \* position of the classifier run: idle, categorize, estimate, extract, done

engineVars == << queries, config, progressCallback, pc, i, retries, results, now,
                 queryStartTime, inFlight, thrown, trace >>

parserVars == << sqlContent, queryBlocks, blockIndex, queryNumber, parsed,
                 accepted, ppc >>

loaderVars == << files, requestedVersion, sqlServerVersion, depth, loadedQueries,
                 thisQueries, packTrace, lpc, sections >>

instanceVars == << parserCalls >>

connectionVars == << isConnected, pool, pending, started, connTrace >>

classifierVars == << inDescription, inBlockA, inBlockB, inQuery, outSection,
                     outDuration, outInfoA, outInfoB, cpc >>

vars == << engineVars, parserVars, loaderVars, classifierVars, instanceVars,
          connectionVars >>

(***************************************************************************)
(* ExecutionEngine.executeQuery: option defaults.                          *)
(***************************************************************************)
maxRetries == JsOr(config.maxRetries, Num(3)).v

retryDelay == JsOr(config.retryDelay, Num(1000)).v

\* variant: the flag is ignored and the loop always goes on
NeverAborts(cfg) == FALSE

\* `if (!this.config.continueOnError) throw error`
AbortsBatch(cfg) == Falsy(cfg.continueOnError)

(***************************************************************************)
(* ExecutionEngine.executeQueries: result handling.                        *)
(***************************************************************************)
RowCount(queryResult) ==
    IF queryResult.kind \in {"array", "recordset"} THEN Len(queryResult.rows) ELSE 0

ResultData(queryResult) ==
    IF queryResult.kind \in {"array", "recordset"} THEN queryResult.rows ELSE <<>>

SuccessOutcome(query, queryResult, elapsed) ==
    [ id |-> query.id, name |-> query.name, section |-> query.section,
      description |-> query.description, success |-> TRUE,
      executionTime |-> elapsed, rowCount |-> RowCount(queryResult),
      data |-> ResultData(queryResult) ]

FailureOutcome(query, error) ==
    [ id |-> query.id, name |-> query.name, section |-> query.section,
      description |-> query.description, success |-> FALSE,
      error |-> error.message, executionTime |-> 0, rowCount |-> 0,
      data |-> <<>> ]

\* variant: the outcome is put in front of the list (unshift)
PushSuccessFront(res, query, queryResult, elapsed) ==
    [ res EXCEPT !.data = << SuccessOutcome(query, queryResult, elapsed) >> \o @,
                 !.successful = @ + 1 ]

PushSuccess(res, query, queryResult, elapsed) ==
    [ res EXCEPT !.data = Append(@, SuccessOutcome(query, queryResult, elapsed)),
                 !.successful = @ + 1 ]

\* variant: the failure is recorded but not counted
PushFailureUncounted(res, query, error) ==
    [ res EXCEPT !.data = Append(@, FailureOutcome(query, error)) ]

PushFailure(res, query, error) ==
    [ res EXCEPT !.data = Append(@, FailureOutcome(query, error)),
                 !.failed = @ + 1 ]

\* variant: the record being started is counted as completed
ProgressEventOffByOne(completed, qs) ==
    [ completed |-> completed + 1, total |-> Len(qs),
      currentQuery |-> IF completed < Len(qs) THEN qs[completed + 1].name
                       ELSE "Complete" ]

\* the object handed to progressCallback
ProgressEvent(completed, qs) ==
    [ completed |-> completed, total |-> Len(qs),
      currentQuery |-> IF completed < Len(qs) THEN qs[completed + 1].name
                       ELSE "Complete" ]

\* variant: the request is not awaited and the loop goes on
AfterDispatchNoAwait == "loop"

\* position of the run after a request was handed to the executor (await)
AfterDispatch == "exec"

(***************************************************************************)
(* History events.                                                         *)
(***************************************************************************)
Ev(kind, idx, att, name) == [ev |-> kind, idx |-> idx, att |-> att, name |-> name]

\* a call of the observer: idx is `completed`, att is `total`
ProgressEv(e) == Ev("progress", e.completed, e.total, e.currentQuery)

\* the history after the progress call of the loop body (if any)
Reported(tr, completed) ==
    IF progressCallback THEN Append(tr, ProgressEv(ProgressEvent(completed, queries)))
    ELSE tr

(***************************************************************************)
(* The components that are not running.                                    *)
(***************************************************************************)
\* no executeQueries call is under way
EngineIdle ==
    /\ queries = <<>>
    /\ config = [timeout |-> Undefined, maxRetries |-> Undefined,
                 retryDelay |-> Undefined, continueOnError |-> Undefined]
    /\ progressCallback = FALSE
    /\ pc = "idle"
    /\ i = 0
    /\ retries = 0
    /\ results = [data |-> <<>>, successful |-> 0, failed |-> 0, executionTime |-> 0]
    /\ now = 0
    /\ queryStartTime = 0
    /\ inFlight = 0
    /\ thrown = NoError
    /\ trace = <<>>

\* no parseGlenBerryQueries call is under way
ParserIdle ==
    /\ sqlContent = <<>>
    /\ queryBlocks = <<>>
    /\ blockIndex = 0
    /\ queryNumber = 1
    /\ parsed = <<>>
    /\ accepted = <<>>
    /\ ppc = "idle"

\* no loadQueries call is under way
LoaderIdle ==
    /\ files = <<>>
    /\ requestedVersion = [n |-> 0, s |-> ""]
    /\ sqlServerVersion = [n |-> 0, s |-> ""]
    /\ depth = 0
    /\ loadedQueries = <<>>
    /\ thisQueries = <<>>
    /\ packTrace = <<>>
    /\ lpc = "idle"
    /\ sections = <<>>

\* no classifier call is under way
ClassifierIdle ==
    /\ inDescription = <<>>
    /\ inBlockA = <<>>
    /\ inBlockB = <<>>
    /\ inQuery = <<>>
    /\ outSection = ""
    /\ outDuration = 0
    /\ outInfoA = <<>>
    /\ outInfoB = <<>>
    /\ cpc = "idle"

\* no caller holds the QueryParser instance
InstanceIdle == parserCalls = <<>>

\* the ConnectionManager was constructed and no method was called
ConnectionIdle ==
    /\ isConnected = FALSE
    /\ pool = 0
    /\ pending = {}
    /\ started = 0
    /\ connTrace = <<>>

(***************************************************************************)
(* Init: executeQueries was called; nothing has run yet.                   *)
(***************************************************************************)
Init ==
    /\ queries \in RecordLists
    /\ config \in Configs
    /\ progressCallback \in BOOLEAN
    /\ pc = "loop"
    /\ i = 0
    /\ retries = 0
    /\ results = [data |-> <<>>, successful |-> 0, failed |-> 0, executionTime |-> 0]
    /\ now = 0
    /\ queryStartTime = 0
    /\ inFlight = 0
    /\ thrown = NoError
    /\ trace = <<>>
    /\ ParserIdle
    /\ LoaderIdle
    /\ ClassifierIdle
    /\ InstanceIdle
    /\ ConnectionIdle

\* the catch branch of executeQueries, entered with `error` for record i
CatchBranch(error, tr) ==
    /\ results' = PushFailure(results, queries[i + 1], error)
    /\ retries' = 0
    /\ IF AbortsBatch(config)
         THEN /\ pc' = "raised"
              /\ thrown' = error
              /\ i' = i
              /\ trace' = tr \o << Ev("failed", i, 0, error.by), Ev("raise", i, 0, "") >>
         ELSE /\ pc' = "loop"
              /\ thrown' = thrown
              /\ i' = i + 1
              /\ trace' = Append(tr, Ev("failed", i, 0, error.by))

\* loop body up to the first await: progress call, then executeQuery's
\* first request
StartRecord ==
    /\ pc = "loop"
    /\ i < Len(queries)
    /\ trace' = Append(Reported(trace, i), Ev("invoke", i, 0, ""))
    /\ queryStartTime' = now
    /\ retries' = 0
    /\ inFlight' = inFlight + 1
    /\ pc' = AfterDispatch
    /\ UNCHANGED << queries, config, progressCallback, i, results, now, thrown >>
    /\ UNCHANGED << parserVars, loaderVars, classifierVars, instanceVars, connectionVars >>

\* the observer raises inside the try block of the loop body
ProgressThrows ==
    /\ pc = "loop"
    /\ i < Len(queries)
    /\ progressCallback
    /\ CatchBranch(Error(ObserverMessage, "observer", i, 0), Reported(trace, i))
    /\ UNCHANGED << queries, config, progressCallback, now, queryStartTime, inFlight >>
    /\ UNCHANGED << parserVars, loaderVars, classifierVars, instanceVars, connectionVars >>

\* the executor resolves: the outcome is recorded and the loop advances
ExecutorResolves ==
    /\ pc = "exec"
    /\ inFlight > 0
    /\ \E queryResult \in ExecutorResults :
         results' = PushSuccess(results, queries[i + 1], queryResult,
                                (now + ExecTicks) - queryStartTime)
    /\ now' = now + ExecTicks
    /\ inFlight' = inFlight - 1
    /\ trace' = trace \o << Ev("resolve", i, retries, ""), Ev("success", i, 0, "") >>
    /\ i' = i + 1
    /\ retries' = 0
    /\ pc' = "loop"
    /\ UNCHANGED << queries, config, progressCallback, queryStartTime, thrown >>
    /\ UNCHANGED << parserVars, loaderVars, classifierVars, instanceVars, connectionVars >>

\* the executor rejects: retry (after the delay) or give the record up
ExecutorRejects ==
    /\ pc = "exec"
    /\ inFlight > 0
    /\ \E m \in ExecutorMessages :
         LET error == Error(m, "executor", i, retries)
             tr == Append(trace, Ev("reject", i, retries, ""))
         IN IF retries + 1 > maxRetries
              THEN /\ CatchBranch(error, tr)
                   /\ inFlight' = inFlight - 1
              ELSE /\ retries' = retries + 1
                   /\ IF retryDelay > 0
                        THEN /\ pc' = "sleep"
                             /\ inFlight' = inFlight - 1
                             /\ trace' = Append(tr, Ev("sleep", i, retries + 1, ""))
                        ELSE /\ pc' = AfterDispatch
                             /\ inFlight' = inFlight
                             /\ trace' = Append(tr, Ev("invoke", i, retries + 1, ""))
                   /\ UNCHANGED << i, results, thrown >>
    /\ now' = now + ExecTicks
    /\ UNCHANGED << queries, config, progressCallback, queryStartTime >>
    /\ UNCHANGED << parserVars, loaderVars, classifierVars, instanceVars, connectionVars >>

\* the retry timer fires: executeQuery sends the next request
RetryTimerFires ==
    /\ pc = "sleep"
    /\ now' = now + retryDelay
    /\ inFlight' = inFlight + 1
    /\ trace' = Append(trace, Ev("invoke", i, retries, ""))
    /\ pc' = AfterDispatch
    /\ UNCHANGED << queries, config, progressCallback, i, retries, results,
                    queryStartTime, thrown >>
    /\ UNCHANGED << parserVars, loaderVars, classifierVars, instanceVars, connectionVars >>

\* after the loop: final progress call, then the result is returned
Finish ==
    /\ pc = "loop"
    /\ i >= Len(queries)
    /\ results' = [results EXCEPT !.executionTime = now]
    /\ pc' = "returned"
    /\ trace' = Append(Reported(trace, Len(queries)), Ev("return", i, 0, ""))
    /\ UNCHANGED << queries, config, progressCallback, i, retries, now,
                    queryStartTime, inFlight, thrown >>
    /\ UNCHANGED << parserVars, loaderVars, classifierVars, instanceVars, connectionVars >>

\* the observer raises on the final progress call (outside any try block)
FinalProgressThrows ==
    /\ pc = "loop"
    /\ i >= Len(queries)
    /\ progressCallback
    /\ thrown' = Error(ObserverMessage, "observer", Len(queries), 0)
    /\ pc' = "raised"
    /\ trace' = Append(Reported(trace, Len(queries)), Ev("raise", i, 0, ""))
    /\ UNCHANGED << queries, config, progressCallback, i, retries, results, now,
                    queryStartTime, inFlight >>
    /\ UNCHANGED << parserVars, loaderVars, classifierVars, instanceVars, connectionVars >>

Next ==
    \/ StartRecord
    \/ ProgressThrows
    \/ ExecutorResolves
    \/ ExecutorRejects
    \/ RetryTimerFires
    \/ Finish
    \/ FinalProgressThrows

Spec == Init /\ [][Next]_vars

(***************************************************************************)
(* Reading the history.                                                    *)
(***************************************************************************)
Positions(kind, idx) ==
    { k \in 1..Len(trace) : trace[k].ev = kind /\ trace[k].idx = idx }

Count(kind, idx) == Cardinality(Positions(kind, idx))

Outcomes(flag) == { k \in 1..Len(results.data) : results.data[k].success = flag }

IsProgress(e) == e.ev = "progress"

\* a record was given up by executeQuery (not by a raising observer)
GivenUp(idx) == \E k \in Positions("failed", idx) : trace[k].name = "executor"

\* token t occurs in message m
Mentions(m, t) == \E k \in 1..Len(m) : m[k] = t

(***************************************************************************)
(* C1: with continueOnError = true the run never raises because of a       *)
(* record: it goes on to the next record after a terminal failure, and the *)
(* result it returns has one outcome per record, `successful` and `failed` *)
(* being the numbers of outcomes with success = true and success = false   *)
(* (so successful + failed = N).  The counters agree with the outcome list *)
(* at every point of the run.                                              *)
(***************************************************************************)
C1_ContinueOnErrorAggregates ==
    config.continueOnError = Bool(TRUE) =>
        /\ results.successful = Cardinality(Outcomes(TRUE))
        /\ results.failed = Cardinality(Outcomes(FALSE))
        /\ pc \in {"loop", "returned"} => Len(results.data) = i
        /\ pc = "returned" =>
              /\ Len(results.data) = Len(queries)
              /\ results.successful + results.failed = Len(queries)
        /\ pc = "raised" => (thrown.by = "observer" /\ thrown.idx = Len(queries))
        /\ \A idx \in 0..(Len(queries) - 1) :
              Count("failed", idx) + Count("success", idx) <= 1

\* a run over at least two records returned after an exhausted record
C1_Witness ==
    /\ config.continueOnError = Bool(TRUE)
    /\ pc = "returned"
    /\ results.failed >= 1
    /\ results.successful >= 1
    /\ \E idx \in 0..(Len(queries) - 2) : GivenUp(idx)

(***************************************************************************)
(* C2: with continueOnError = false, once a record has failed the run has  *)
(* raised: the history holds no executor call, no progress call and no     *)
(* return after the failure, and the error is set.                         *)
(***************************************************************************)
C2_AbortOnFirstFailure ==
    config.continueOnError = Bool(FALSE) =>
        \A k \in 1..Len(trace) :
            trace[k].ev = "failed" =>
                /\ pc = "raised"
                /\ thrown # NoError
                /\ \A j \in (k + 1)..Len(trace) : trace[j].ev = "raise"
                /\ \A j \in 1..Len(trace) :
                       trace[j].ev \in {"invoke", "progress"} => trace[j].idx <= trace[k].idx
                /\ \A j \in 1..Len(trace) : trace[j].ev # "return"

\* a record with later records behind it used up its attempts
C2_Witness ==
    /\ config.continueOnError = Bool(FALSE)
    /\ pc = "raised"
    /\ i + 1 < Len(queries)
    /\ GivenUp(i)
    /\ Count("reject", i) >= 2

(***************************************************************************)
(* C3 (as claimed): for a non-negative integer maxRetries in the options,  *)
(* the executor is invoked at most maxRetries + 1 times for one record, a  *)
(* record is given up only after exactly maxRetries + 1 failed calls, and  *)
(* no call for a record follows its success.                               *)
(***************************************************************************)
C3_BoundedRetry ==
    config.maxRetries.t = "number" =>
        \A idx \in 0..(Len(queries) - 1) :
            /\ Count("invoke", idx) <= config.maxRetries.v + 1
            /\ GivenUp(idx) => Count("reject", idx) = config.maxRetries.v + 1
            /\ \A k \in Positions("resolve", idx) :
                   \A j \in Positions("invoke", idx) : j < k

(***************************************************************************)
(* C4: at most one executor request is in flight, and executor calls are   *)
(* strictly sequential and in input order: between two calls the earlier   *)
(* one has settled, and a call for a later record never precedes a call    *)
(* for an earlier one.                                                     *)
(***************************************************************************)
C4_SequentialInOrder ==
    /\ inFlight <= 1
    /\ \A a, b \in 1..Len(trace) :
          (a < b /\ trace[a].ev = "invoke" /\ trace[b].ev = "invoke") =>
              /\ trace[a].idx <= trace[b].idx
              /\ \E c \in (a + 1)..(b - 1) :
                    /\ trace[c].ev \in {"resolve", "reject"}
                    /\ trace[c].idx = trace[a].idx
                    /\ trace[c].att = trace[a].att

\* the second record is being executed after the first one was retried
C4_Witness ==
    /\ Count("invoke", 0) >= 2
    /\ Count("invoke", 1) >= 1
    /\ inFlight = 1

(***************************************************************************)
(* C5: a run over N records that returns has called the observer exactly   *)
(* N + 1 times; call k (k = 0..N-1) carries completed = k and the name of  *)
(* record k + 1, comes after the terminal state of record k and before the *)
(* first executor call for record k + 1; the last call carries             *)
(* completed = N = total.  At every point the calls made so far are        *)
(* numbered 0, 1, 2, ... without repetition.                               *)
(***************************************************************************)
C5_ProgressEvents ==
    LET calls == SelectSeq(trace, IsProgress)
    IN /\ \A k \in 1..Len(calls) :
             /\ calls[k].idx = k - 1
             /\ calls[k].att = Len(queries)
             /\ k <= Len(queries) => calls[k].name = queries[k].name
       /\ pc = "returned" /\ progressCallback =>
             /\ Len(calls) = Len(queries) + 1
             /\ calls[Len(calls)].idx = Len(queries)
       /\ progressCallback =>
             \A p \in 1..Len(trace) :
                 trace[p].ev = "progress" =>
                     /\ \A q \in 1..Len(trace) :
                            (trace[q].ev \in {"invoke", "success", "failed"}
                               /\ trace[q].idx >= trace[p].idx) => p < q
                     /\ \A q \in 1..Len(trace) :
                            (trace[q].ev \in {"invoke", "success", "failed"}
                               /\ trace[q].idx < trace[p].idx) => q < p
                     /\ trace[p].idx > 0 =>
                            Count("success", trace[p].idx - 1)
                              + Count("failed", trace[p].idx - 1) = 1

\* a run with an observer returned after at least two records and a retry
C5_Witness ==
    /\ pc = "returned"
    /\ progressCallback
    /\ Len(queries) >= 2
    /\ \E idx \in 0..(Len(queries) - 1) : Count("invoke", idx) >= 2

(***************************************************************************)
(* C6: the outcome list is a prefix-aligned image of the input: outcome k  *)
(* carries the id, name and section of input record k, and there are never *)
(* more outcomes than records.                                             *)
(***************************************************************************)
C6_OutcomesAligned ==
    /\ Len(results.data) <= Len(queries)
    /\ \A k \in 1..Len(results.data) :
          /\ results.data[k].id = queries[k].id
          /\ results.data[k].name = queries[k].name
          /\ results.data[k].section = queries[k].section

\* two outcomes for two different records
C6_Witness ==
    /\ Len(results.data) >= 2
    /\ results.data[1].id # results.data[2].id
    /\ results.data[1].success # results.data[2].success

(***************************************************************************)
(* C7 (as claimed): the error of a batch aborted by an exhausted record    *)
(* includes the failing record's name together with the executor's         *)
(* message.                                                                *)
(***************************************************************************)
C7_FatalErrorNamesRecord ==
    (pc = "raised" /\ thrown.by = "executor") =>
        /\ Mentions(thrown.message, queries[thrown.idx + 1].name)
        /\ \E m \in ExecutorMessages : \A k \in 1..Len(m) : Mentions(thrown.message, m[k])

(***************************************************************************)
(* C8 (as claimed): with continueOnError = false the error the run raises  *)
(* is the very error the executor raised on attempt maxRetries + 1 of the  *)
(* failing record.  Stated for runs whose observer did not raise.          *)
(***************************************************************************)
C8_LastErrorVerbatim ==
    (config.continueOnError = Bool(FALSE) /\ pc = "raised"
       /\ config.maxRetries.t = "number" /\ thrown.by # "observer") =>
        /\ thrown.by = "executor"
        /\ thrown.idx = i
        /\ thrown.att + 1 = config.maxRetries.v + 1
        /\ Mentions(results.data[Len(results.data)].error, thrown.message[1])

(***************************************************************************)
(* C9 (as claimed): an outcome has an error message iff success is false;  *)
(* a failure outcome has rowCount 0, elapsed time 0, empty data and the    *)
(* message of the final attempt's error; a success outcome has no error    *)
(* message.                                                                *)
(***************************************************************************)
C9_OutcomeShape ==
    \A k \in 1..Len(results.data) :
        LET o == results.data[k]
        IN /\ ("error" \in DOMAIN o) <=> ~o.success
           /\ ~o.success =>
                 /\ o.rowCount = 0
                 /\ o.executionTime = 0
                 /\ o.data = <<>>
                 /\ o.error \in ExecutorMessages
                 /\ Count("reject", k - 1) >= 1

(***************************************************************************)
(* The run under fair scheduling: every executor request settles, every    *)
(* retry timer fires and every synchronous step is taken.                  *)
(***************************************************************************)
FairSpec == Spec /\ WF_vars(Next)

\* the maxRetries the options stand for: the value given, 3 when absent
OptionMaxRetries == IF config.maxRetries.t = "number" THEN config.maxRetries.v ELSE 3

\* executor invocations of the whole run
Invocations == Cardinality({ k \in 1..Len(trace) : trace[k].ev = "invoke" })

(***************************************************************************)
(* C21: a sleep occurs only between a failed attempt and the re-attempt    *)
(* that follows it for the same record: the event before a sleep is a      *)
(* rejected attempt, the event after it is the next attempt, so there is   *)
(* no sleep after a success nor after the final failed attempt; and when   *)
(* the options give a retry delay of 0 there is no sleep at all.           *)
(***************************************************************************)
C21_InterRetryDelay ==
    /\ \A k \in 1..Len(trace) :
         trace[k].ev = "sleep" =>
            /\ k > 1
            /\ trace[k - 1].ev = "reject"
            /\ trace[k - 1].idx = trace[k].idx
            /\ k < Len(trace) =>
                  /\ trace[k + 1].ev = "invoke"
                  /\ trace[k + 1].idx = trace[k].idx
    /\ config.retryDelay = Num(0) =>
         /\ pc # "sleep"
         /\ \A k \in 1..Len(trace) : trace[k].ev # "sleep"

(***************************************************************************)
(* C22: a run over N records ends: it eventually returns its result or     *)
(* raises, and at no time has the executor been invoked more than          *)
(* N * (maxRetries + 1) times.                                             *)
(***************************************************************************)
C22_RunTerminates ==
    /\ <>(pc \in {"returned", "raised"})
    /\ [](Invocations <= Len(queries) * (OptionMaxRetries + 1))

(***************************************************************************)
(* C28: the progress observer cannot change a record's outcome: a record   *)
(* is marked failed, or aborts the batch, only after the executor was      *)
(* invoked maxRetries + 1 times for it and every invocation failed.        *)
(***************************************************************************)
C28_ObserverCannotFailRecord ==
    /\ \A k \in 1..Len(trace) :
         trace[k].ev = "failed" =>
            /\ Count("invoke", trace[k].idx) = OptionMaxRetries + 1
            /\ Count("reject", trace[k].idx) = OptionMaxRetries + 1
            /\ Count("resolve", trace[k].idx) = 0
    /\ \A k \in Outcomes(FALSE) :
         \E idx \in 0..(Len(queries) - 1) :
            /\ queries[idx + 1].id = results.data[k].id
            /\ Count("invoke", idx) >= 1
    /\ (pc = "raised" /\ thrown.idx < Len(queries)) => Count("invoke", thrown.idx) >= 1

(***************************************************************************)
(* C29: an option that is absent from the options object behaves as the    *)
(* default query configuration (maxRetries 3, retryDelay 1000,             *)
(* continueOnError true): with continueOnError absent the run goes on      *)
(* with the next record after a record's terminal failure and never        *)
(* aborts the batch.                                                       *)
(***************************************************************************)
C29_OmittedOptionsAreDefaults ==
    /\ config.maxRetries = Undefined => maxRetries = 3
    /\ config.retryDelay = Undefined => retryDelay = 1000
    /\ config.continueOnError = Undefined =>
         /\ ~(pc = "raised" /\ thrown.by = "executor")
         /\ \A k \in 1..Len(trace) :
              (trace[k].ev = "failed" /\ trace[k].name = "executor") =>
                  (k = Len(trace) \/ trace[k + 1].ev # "raise")

(***************************************************************************)
(* QueryParser: the text model.                                            *)
(* A pack text is a sequence of chunks; a chunk is a piece of text whose   *)
(* class, number of characters, lower-cased keywords and (for a            *)
(* parenthesized description) trimmed inner text are listed below.  The    *)
(* texts are written as sequences of the chunks' written forms and carry   *)
(* the listed attributes of every chunk.                                   *)
(***************************************************************************)
Chunk(cls, s, n, kw, d) == [cls |-> cls, s |-> s, n |-> n, kw |-> kw, d |-> d]

Vocabulary ==
    { Chunk("space", " ", 1, {}, ""),
      Chunk("newline", "\n", 1, {}, ""),
      Chunk("dashes", "--", 2, {}, ""),
      Chunk("dashes", "------", 6, {}, ""),
      Chunk("dashes", "-------", 7, {}, ""),
      Chunk("marker", "(Query 1)", 9, {}, ""),
      Chunk("marker", "(Query 27)", 10, {}, ""),
      Chunk("paren", "(Version Info)", 14, {"version"}, "Version Info"),
      Chunk("paren", "( Top Waits )", 13, {"wait"}, "Top Waits"),
      Chunk("text", "Version Info", 12, {"version"}, ""),
      Chunk("text", "Top Waits", 9, {"wait"}, ""),
      Chunk("text", "SQL and OS Version information for current instance", 51,
            {"version"}, ""),
      Chunk("text", "Get selected server properties", 30, {"server properties"}, ""),
      Chunk("text", "short note", 10, {}, ""),
      Chunk("text", "Isolate top waits for server instance since last restart or wait statistics clear",
            81, {"statistics", "wait"}, ""),
      Chunk("text", "reads sys.databases", 19, {"database", "sys.databases"}, ""),
      Chunk("sql", "SELECT @@SERVERNAME AS [Server Name], @@VERSION AS [SQL Server and OS Version Info];",
            84, {"version", "@@version"}, ""),
      Chunk("sql", "SELECT SERVERPROPERTY('MachineName') AS [MachineName];", 54,
            {"serverproperty"}, ""),
      Chunk("sql", "SELECT 1;", 9, {}, ""),
      Chunk("sql", "SELECT 1 AS one;", 16, {}, ""),
      Chunk("sql", "SELECT wait_type, wait_time_ms FROM sys.dm_os_wait_stats;", 57,
            {"wait", "sys.dm_os_wait_stats"}, ""),
      Chunk("sql", "OPTION (RECOMPILE);", 19, {}, ""),
      Chunk("paren", "(Hardware Info)", 15, {"hardware"}, "Hardware Info"),
      Chunk("paren", "(Last Backup By Database)", 25, {"backup", "database"}, "Last Backup By Database"),
      Chunk("paren", "(Database Properties)", 21, {"database"}, "Database Properties"),
      Chunk("paren", "(Login Count)", 13, {"login"}, "Login Count"),
      Chunk("paren", "(AlwaysOn AG Cluster)", 21, {"alwayson", "cluster"}, "AlwaysOn AG Cluster"),
      Chunk("paren", "(SQL Server Agent Jobs)", 23, {"job", "agent"}, "SQL Server Agent Jobs"),
      Chunk("paren", "(Configuration Values)", 22, {"configuration"}, "Configuration Values"),
      Chunk("paren", "(CPU Usage by Database)", 23, {"cpu", "database"}, "CPU Usage by Database"),
      Chunk("paren", "(Index Fragmentation)", 21, {"fragmentation", "index"}, "Index Fragmentation"),
      Chunk("paren", "(Wait Statistics)", 17, {"statistics", "wait"}, "Wait Statistics"),
      Chunk("paren", "(Ad hoc Queries)", 16, {}, "Ad hoc Queries"),
      Chunk("paren", "(Agent Alerts)", 14, {"agent", "alert"}, "Agent Alerts"),
      Chunk("text", "Hardware Info", 13, {"hardware"}, ""),
      Chunk("text", "Last Backup By Database", 23, {"backup", "database"}, ""),
      Chunk("text", "Database Properties", 19, {"database"}, ""),
      Chunk("text", "Login Count", 11, {"login"}, ""),
      Chunk("text", "AlwaysOn AG Cluster", 19, {"alwayson", "cluster"}, ""),
      Chunk("text", "SQL Server Agent Jobs", 21, {"job", "agent"}, ""),
      Chunk("text", "Configuration Values", 20, {"configuration"}, ""),
      Chunk("text", "CPU Usage by Database", 21, {"cpu", "database"}, ""),
      Chunk("text", "Index Fragmentation", 19, {"fragmentation", "index"}, ""),
      Chunk("text", "Wait Statistics", 15, {"statistics", "wait"}, ""),
      Chunk("text", "Ad hoc Queries", 14, {}, ""),
      Chunk("text", "Agent Alerts", 12, {"agent", "alert"}, ""),
      Chunk("text", "Look at ad hoc query counts", 27, {}, ""),
      Chunk("sql", "SELECT name FROM sys.databases; DBCC TRACESTATUS (-1);",
            54, {"database", "sys.databases", "dbcc"}, ""),
      Chunk("sql", "DBCC SQLPERF(LOGSPACE);",
            23, {"dbcc"}, ""),
      Chunk("sql", "SELECT d.name, w.wait_type FROM sys.databases AS d CROSS JOIN sys.dm_os_wait_stats AS w;",
            88, {"wait", "database", "sys.dm_os_wait_stats", "sys.databases"}, ""),
      Chunk("sql", "SELECT SERVERPROPERTY('ServerName') AS [Server Name], wait_type FROM sys.dm_os_wait_stats;",
            90, {"wait", "sys.dm_os_wait_stats", "serverproperty"}, ""),
      Chunk("sql", "SELECT * FROM sys.dm_db_index_usage_stats AS s CROSS JOIN sys.dm_db_index_physical_stats(DB_ID(), NULL, NULL, NULL, 'LIMITED') AS ps;",
            133, {"index", "sys.dm_db_index_usage_stats", "sys.dm_db_index_physical_stats"}, ""),
      Chunk("sql", "SELECT COUNT(*) AS [Buffer Count] FROM sys.dm_os_buffer_descriptors;",
            68, {"sys.dm_os_buffer_descriptors"}, ""),
      Chunk("sql", "SELECT t.[text] FROM sys.dm_os_buffer_descriptors AS b CROSS APPLY sys.dm_exec_sql_text(b.page_id) AS t;",
            104, {"sys.dm_os_buffer_descriptors", "cross apply", "sys.dm_exec_sql_text"}, ""),
      Chunk("sql", "SELECT t.[text] FROM sys.dm_exec_requests AS r CROSS APPLY sys.dm_exec_sql_text(r.sql_handle) AS t;",
            99, {"cross apply", "sys.dm_exec_sql_text"}, ""),
      Chunk("sql", "SELECT qs.total_worker_time FROM sys.dm_exec_query_stats AS qs CROSS APPLY sys.dm_exec_sql_text(qs.plan_handle) AS t;",
            117, {"sys.dm_exec_query_stats", "cross apply", "sys.dm_exec_sql_text"}, ""),
      Chunk("sql", "SELECT * FROM sys.dm_exec_requests AS r CROSS APPLY sys.dm_exec_query_plan(r.plan_handle);",
            90, {"cross apply"}, ""),
      Chunk("sql", "SELECT [text] FROM sys.dm_exec_sql_text(@handle);",
            49, {"sys.dm_exec_sql_text"}, "") }

\* the vocabulary as a table from the written form of a chunk; the inner
\* text of a parenthesized description is a text of one chunk
Table ==
    LET entry == [ s \in { c.s : c \in Vocabulary } |-> CHOOSE c \in Vocabulary : c.s = s ]
    IN [ s \in DOMAIN entry |->
           [ entry[s] EXCEPT !.d = IF @ = "" THEN <<>>
                                   ELSE << [ entry[@] EXCEPT !.d = <<>> ] >> ] ]

Lookup(s) == Table[s]

\* the text written as the sequence strings
Text(strings) == [ p \in 1..Len(strings) |-> Lookup(strings[p]) ]

Cls(c) == c.cls

\* String.prototype.length of a chunk
Chars(c) == c.n

\* c.toLowerCase().includes(kw) for a chunk
ChunkIncludes(c, kw) == kw \in c.kw

\* text.toLowerCase().includes(kw) for a text
Includes(text, kw) == \E p \in 1..Len(text) : ChunkIncludes(text[p], kw)

RECURSIVE Length(_)
\* String.prototype.length of a text
Length(text) == IF text = <<>> THEN 0 ELSE Chars(Head(text)) + Length(Tail(text))

IsWhitespace(c) == Cls(c) \in {"space", "newline"}

\* String.prototype.trim
Trim(text) ==
    LET solid == { p \in 1..Len(text) : ~IsWhitespace(text[p]) }
    IN IF solid = {} THEN <<>>
       ELSE SubSeq(text, CHOOSE p \in solid : \A q \in solid : p <= q,
                         CHOOSE p \in solid : \A q \in solid : q <= p)

(***************************************************************************)
(* QueryParser.parseGlenBerryQueries: split on /^------$/gm.               *)
(***************************************************************************)
\* minimum length of a block, and of a query body
MinBlockLength == 50

MinQueryLength == 10

\* position p holds a line that consists solely of six dashes
IsDelimiterAt(text, p) ==
    /\ text[p].s = "------"
    /\ (p = 1 \/ Cls(text[p - 1]) = "newline")
    /\ (p = Len(text) \/ Cls(text[p + 1]) = "newline")

Delimiters(text) == { p \in 1..Len(text) : IsDelimiterAt(text, p) }

\* the k-th smallest element of a set of positions
Kth(S, k) == CHOOSE p \in S : Cardinality({ q \in S : q < p }) = k - 1

\* sqlContent.split(/^------$/gm): one piece more than there are delimiters
SplitBlocks(text) ==
    LET D == Delimiters(text)
        n == Cardinality(D)
        from(k) == IF k = 1 THEN 1 ELSE Kth(D, k - 1) + 1
        to(k) == IF k = n + 1 THEN Len(text) ELSE Kth(D, k) - 1
    IN [ k \in 1..(n + 1) |-> SubSeq(text, from(k), to(k)) ]

(***************************************************************************)
(* QueryParser.categorizeQuery and estimateQueryDuration.                  *)
(***************************************************************************)
DescIncludes(description, kws) == \E kw \in kws : Includes(description, kw)

ContentIncludes(block, kws) == \E kw \in kws : Includes(block, kw)

\* variant: the Performance rule is tested before the Maintenance rule
categorizeQueryReordered(description, block) ==
    IF DescIncludes(description, {"version", "server properties", "configuration"})
      THEN "Instance Information"
    ELSE IF DescIncludes(description, {"memory", "hardware", "cpu", "numa"})
      THEN "Hardware & OS"
    ELSE IF DescIncludes(description, {"wait", "performance", "execution", "expensive"})
      THEN "Performance"
    ELSE IF DescIncludes(description, {"backup", "maintenance", "statistics", "fragmentation"})
      THEN "Maintenance"
    ELSE IF DescIncludes(description, {"database", "file", "table", "index"})
      THEN "Database Objects"
    ELSE IF DescIncludes(description, {"security", "login", "permission"})
      THEN "Security"
    ELSE IF DescIncludes(description, {"alwayson", "cluster", "availability"})
      THEN "High Availability"
    ELSE IF DescIncludes(description, {"job", "agent", "alert"})
      THEN "SQL Server Agent"
    ELSE IF ContentIncludes(block, {"sys.dm_os_wait_stats", "sys.dm_exec_query_stats"})
      THEN "Performance"
    ELSE IF ContentIncludes(block, {"sys.databases", "sys.master_files"})
      THEN "Database Objects"
    ELSE IF ContentIncludes(block, {"msdb.dbo.backupset", "dbcc"})
      THEN "Maintenance"
    ELSE "General"

categorizeQuery(description, block) ==
    IF DescIncludes(description, {"version", "server properties", "configuration"})
      THEN "Instance Information"
    ELSE IF DescIncludes(description, {"memory", "hardware", "cpu", "numa"})
      THEN "Hardware & OS"
    ELSE IF DescIncludes(description, {"backup", "maintenance", "statistics", "fragmentation"})
      THEN "Maintenance"
    ELSE IF DescIncludes(description, {"wait", "performance", "execution", "expensive"})
      THEN "Performance"
    ELSE IF DescIncludes(description, {"database", "file", "table", "index"})
      THEN "Database Objects"
    ELSE IF DescIncludes(description, {"security", "login", "permission"})
      THEN "Security"
    ELSE IF DescIncludes(description, {"alwayson", "cluster", "availability"})
      THEN "High Availability"
    ELSE IF DescIncludes(description, {"job", "agent", "alert"})
      THEN "SQL Server Agent"
    ELSE IF ContentIncludes(block, {"sys.dm_os_wait_stats", "sys.dm_exec_query_stats"})
      THEN "Performance"
    ELSE IF ContentIncludes(block, {"sys.databases", "sys.master_files"})
      THEN "Database Objects"
    ELSE IF ContentIncludes(block, {"msdb.dbo.backupset", "dbcc"})
      THEN "Maintenance"
    ELSE "General"

\* variant: the combination tier is tested first
estimateQueryDurationReordered(query) ==
    IF Includes(query, "cross apply") /\ Includes(query, "sys.dm_exec_sql_text")
      THEN 10000
    ELSE IF ContentIncludes(query, {"@@version", "serverproperty", "sys.configurations"})
      THEN 500
    ELSE IF ContentIncludes(query, {"sys.dm_os_wait_stats", "sys.dm_exec_query_stats",
                                    "sys.dm_db_index_usage_stats"})
      THEN 2000
    ELSE IF ContentIncludes(query, {"sys.dm_db_index_physical_stats",
                                    "sys.dm_os_buffer_descriptors"})
      THEN 5000
    ELSE 3000

estimateQueryDuration(query) ==
    IF ContentIncludes(query, {"@@version", "serverproperty", "sys.configurations"})
      THEN 500
    ELSE IF ContentIncludes(query, {"sys.dm_os_wait_stats", "sys.dm_exec_query_stats",
                                    "sys.dm_db_index_usage_stats"})
      THEN 2000
    ELSE IF ContentIncludes(query, {"sys.dm_db_index_physical_stats",
                                    "sys.dm_os_buffer_descriptors"})
      THEN 5000
    ELSE IF Includes(query, "cross apply") /\ Includes(query, "sys.dm_exec_sql_text")
      THEN 10000
    ELSE 3000

(***************************************************************************)
(* QueryParser.extractQueryInfo.                                           *)
(***************************************************************************)
\* matches of /--.*?\(Query\s+(\d+)\)\s*\(([^)]+)\)/i : dashes at a, the
\* query marker at b on the same line, the description at c after blanks
PatternMatches(block) ==
    LET at(cls) == { p \in 1..Len(block) : Cls(block[p]) = cls }
    IN { m \in at("dashes") \X at("marker") \X at("paren") :
           /\ m[1] < m[2] /\ m[2] < m[3]
           /\ \A p \in m[1]..m[2] : Cls(block[p]) # "newline"
           /\ \A p \in (m[2] + 1)..(m[3] - 1) : IsWhitespace(block[p]) }

\* the match String.prototype.match returns: leftmost start, lazy `.*?`
FirstMatch(block) ==
    CHOOSE m \in PatternMatches(block) :
        \A o \in PatternMatches(block) :
            m[1] < o[1] \/ (m[1] = o[1] /\ m[2] <= o[2])

\* positions at which a line of block.split('\n') starts
LineStarts(block) ==
    { p \in 1..Len(block) : p = 1 \/ Cls(block[p - 1]) = "newline" }

\* the line that starts at p
LineAt(block, p) ==
    LET ends == { q \in p..Len(block) : Cls(block[q]) = "newline" }
    IN IF ends = {} THEN SubSeq(block, p, Len(block))
       ELSE SubSeq(block, p, (CHOOSE q \in ends : \A r \in ends : q <= r) - 1)

\* trimmedLine.startsWith('--') || trimmedLine === ''
IsCommentOrBlank(line) ==
    LET trimmedLine == Trim(line)
    IN trimmedLine = <<>> \/ Cls(trimmedLine[1]) = "dashes"

\* starts of the lines that are pushed to sqlLines
BodyLineStarts(block) ==
    LET first == { p \in LineStarts(block) : ~IsCommentOrBlank(LineAt(block, p)) }
    IN { p \in LineStarts(block) : \E f \in first : f <= p }

\* variant: the lines are collected from the top of the block
QueryBodyFromTop(block) == Trim(block)

\* sqlLines.join('\n').trim()
QueryBody(block) ==
    LET S == BodyLineStarts(block)
    IN IF S = {} THEN <<>>
       ELSE Trim(SubSeq(block, CHOOSE p \in S : \A q \in S : p <= q, Len(block)))

\* the value of a `return null`
Null == [name |-> <<>>, section |-> "", description |-> <<>>, query |-> <<>>]

\* variant: the placeholder always carries the number 1
GeneratedNameFirst(qn) == << Chunk("text", "Query 1", 7, {}, <<>>) >>

\* `Query ${queryNumber}`
GeneratedName(qn) ==
    << Chunk("text", "Query " \o ToString(qn), IF qn < 10 THEN 7 ELSE 8, {}, <<>>) >>

\* 'SQL Server diagnostic query'
GeneratedDescription == << Chunk("text", "SQL Server diagnostic query", 27, {}, <<>>) >>

extractQueryInfo(block, qn) ==
    LET matched == PatternMatches(block) # {}
        description == IF matched THEN block[FirstMatch(block)[3]].d
                       ELSE GeneratedDescription
        name == IF matched THEN description ELSE GeneratedName(qn)
        section == IF matched THEN categorizeQuery(description, block) ELSE "General"
        query == QueryBody(block)
    IN IF query = <<>> \/ Length(query) < MinQueryLength THEN Null
       ELSE [name |-> name, section |-> section, description |-> description,
             query |-> query]

(***************************************************************************)
(* QueryParser.parseGlenBerryQueries: the loop over the blocks.            *)
(***************************************************************************)
\* variant: the loop runs over every piece of the split
LoopLimitAll(blocks) == Len(blocks)

\* `i < queryBlocks.length - 1`: the piece after the last delimiter is left out
LoopLimit(blocks) == Len(blocks) - 1

\* queryBlocks[i].trim() for the 0-based loop index
BlockAt(blocks, idx) == Trim(blocks[idx + 1])

\* variant: only an empty block is skipped
IsEmptyBlock(block) == block = <<>>

\* `if (!block || block.length < 50) continue`
IsShortBlock(block) == block = <<>> \/ Length(block) < MinBlockLength

\* `if (queryInfo && queryInfo.query)`
IsAccepted(queryInfo) == queryInfo # Null /\ queryInfo.query # <<>>

QueryRecord(queryInfo, qn) ==
    [ id |-> "glen-berry-" \o ToString(qn), name |-> queryInfo.name,
      section |-> queryInfo.section, description |-> queryInfo.description,
      query |-> queryInfo.query,
      estimatedDuration |-> estimateQueryDuration(queryInfo.query),
      queryNumber |-> qn ]

\* variant: the counter moves on every block that passed the length filter
NextQueryNumberAlways(qn, isAccepted) == qn + 1

\* the counter after a block was handled: it moves on accepted blocks only
NextQueryNumber(qn, isAccepted) == IF isAccepted THEN qn + 1 ELSE qn

(***************************************************************************)
(* Inputs of the parser: packs assembled from blocks, each block followed  *)
(* by a delimiter line, and a remainder after the last delimiter.          *)
(***************************************************************************)
\* most blocks (delimiter lines) in a pack text
MaxBlocks == 4

BlockPool ==
    { \* annotated comment line and a query
      Text(<< "--", " ", "SQL and OS Version information for current instance", " ",
         "(Query 1)", " ", "(Version Info)", "\n",
         "SELECT @@SERVERNAME AS [Server Name], @@VERSION AS [SQL Server and OS Version Info];" >>),
      \* annotation with the description on the next line, indented body,
      \* blank line and comment line inside the body
      Text(<< "--", " ", "Isolate top waits for server instance since last restart or wait statistics clear",
         " ", "(Query 27)", "\n", "( Top Waits )", "\n", "\n",
         " ", "SELECT wait_type, wait_time_ms FROM sys.dm_os_wait_stats;", "\n", "\n",
         "--", " ", "short note", "\n", "OPTION (RECOMPILE);" >>),
      \* no annotation; keywords of the rules in the comment and in the
      \* body, whose first line is indented
      Text(<< "--", " ", "Get selected server properties", "\n",
         " ", "SELECT SERVERPROPERTY('MachineName') AS [MachineName];", "\n",
         "SELECT name FROM sys.databases; DBCC TRACESTATUS (-1);" >>),
      \* shorter than the block threshold
      Text(<< "--", " ", "short note", "\n", "SELECT 1 AS one;" >>),
      \* long enough, but comment lines only
      Text(<< "--", " ", "SQL and OS Version information for current instance", "\n",
         "-------", "\n", "--", " ", "reads sys.databases" >>),
      \* long enough, but the body is below the body threshold
      Text(<< "--", " ", "Get selected server properties", "\n", "--", " ",
         "reads sys.databases", "\n", "SELECT 1;" >>) }

RemainderPool ==
    { <<>>,
      Text(<< "\n", "--", " ", "Get selected server properties", "\n",
         "SELECT SERVERPROPERTY('MachineName') AS [MachineName];", "\n" >>) }

RECURSIVE Join(_)
\* the blocks, each followed by a delimiter line
Join(blocks) ==
    IF blocks = <<>> THEN <<>>
    ELSE Head(blocks) \o Text(<< "\n", "------", "\n" >>) \o Join(Tail(blocks))

PackTexts ==
    { Join(blocks) \o rem :
        blocks \in UNION { [1..n -> BlockPool] : n \in 0..MaxBlocks },
        rem \in RemainderPool }

(***************************************************************************)
(* The parse as a state machine.                                           *)
(***************************************************************************)
ParserInit ==
    /\ sqlContent \in PackTexts
    /\ queryBlocks = <<>>
    /\ blockIndex = 0
    /\ queryNumber = 1
    /\ parsed = <<>>
    /\ accepted = <<>>
    /\ ppc = "split"
    /\ EngineIdle
    /\ LoaderIdle
    /\ ClassifierIdle
    /\ InstanceIdle
    /\ ConnectionIdle

\* `const queryBlocks = sqlContent.split(...); let queryNumber = 1`
SplitContent ==
    /\ ppc = "split"
    /\ queryBlocks' = SplitBlocks(sqlContent)
    /\ queryNumber' = 1
    /\ blockIndex' = 0
    /\ ppc' = "blocks"
    /\ UNCHANGED << sqlContent, parsed, accepted >>
    /\ UNCHANGED << engineVars, loaderVars, classifierVars, instanceVars, connectionVars >>

\* `continue` on a very short block
SkipShortBlock ==
    /\ ppc = "blocks"
    /\ blockIndex < LoopLimit(queryBlocks)
    /\ IsShortBlock(BlockAt(queryBlocks, blockIndex))
    /\ blockIndex' = blockIndex + 1
    /\ UNCHANGED << sqlContent, queryBlocks, queryNumber, parsed, accepted, ppc >>
    /\ UNCHANGED << engineVars, loaderVars, classifierVars, instanceVars, connectionVars >>

\* a block of sufficient length: extractQueryInfo, then push or drop
HandleBlock ==
    /\ ppc = "blocks"
    /\ blockIndex < LoopLimit(queryBlocks)
    /\ ~IsShortBlock(BlockAt(queryBlocks, blockIndex))
    /\ LET queryInfo == extractQueryInfo(BlockAt(queryBlocks, blockIndex), queryNumber)
       IN /\ parsed' = IF IsAccepted(queryInfo)
                         THEN Append(parsed, QueryRecord(queryInfo, queryNumber))
                         ELSE parsed
          /\ accepted' = IF IsAccepted(queryInfo)
                           THEN Append(accepted, blockIndex) ELSE accepted
          /\ queryNumber' = NextQueryNumber(queryNumber, IsAccepted(queryInfo))
    /\ blockIndex' = blockIndex + 1
    /\ UNCHANGED << sqlContent, queryBlocks, ppc >>
    /\ UNCHANGED << engineVars, loaderVars, classifierVars, instanceVars, connectionVars >>

\* `return queries`
ReturnParsed ==
    /\ ppc = "blocks"
    /\ blockIndex >= LoopLimit(queryBlocks)
    /\ ppc' = "done"
    /\ UNCHANGED << sqlContent, queryBlocks, blockIndex, queryNumber, parsed, accepted >>
    /\ UNCHANGED << engineVars, loaderVars, classifierVars, instanceVars, connectionVars >>

ParserNext ==
    \/ SplitContent
    \/ SkipShortBlock
    \/ HandleBlock
    \/ ReturnParsed

ParserSpec == ParserInit /\ [][ParserNext]_vars

(***************************************************************************)
(* C10: only accepted blocks are numbered.  The k-th record has            *)
(* queryNumber k and the id made from k, ids are pairwise distinct, the    *)
(* records come from blocks of increasing position (record k is the body   *)
(* of the k-th accepted block), and the counter is always one more than    *)
(* the number of records, so a rejected block consumes no number.          *)
(***************************************************************************)
C10_AcceptedBlocksNumbered ==
    /\ Len(accepted) = Len(parsed)
    /\ ppc \in {"blocks", "done"} => queryNumber = Len(parsed) + 1
    /\ \A k \in 1..Len(parsed) :
          /\ parsed[k].queryNumber = k
          /\ parsed[k].id = "glen-berry-" \o ToString(k)
          /\ accepted[k] < blockIndex
          /\ parsed[k].query = QueryBody(BlockAt(queryBlocks, accepted[k]))
    /\ \A k, l \in 1..Len(parsed) :
          k < l => (accepted[k] < accepted[l] /\ parsed[k].id # parsed[l].id)

\* three records were returned and a rejected block lies before one of them
C10_Witness ==
    /\ ppc = "done"
    /\ Len(parsed) >= 3
    /\ \E k \in 1..Len(parsed) : accepted[k] > k - 1

(***************************************************************************)
(* C19: the final split remainder is discarded.  The content after the     *)
(* last delimiter line never becomes a record: a text with D delimiter     *)
(* lines yields at most D records, each from one of the D pieces that end  *)
(* at a delimiter, and a text without a delimiter line yields none.        *)
(***************************************************************************)
C19_RemainderDiscarded ==
    LET D == Cardinality(Delimiters(sqlContent))
    IN /\ Len(parsed) <= D
       /\ D = 0 => parsed = <<>>
       /\ \A k \in 1..Len(accepted) : accepted[k] < D
       /\ ppc \in {"blocks", "done"} => Len(queryBlocks) = D + 1
       /\ ppc = "done" => blockIndex = D

\* the parse returned one record per delimiter although the text after the
\* last delimiter is a block that passes both length tests
C19_Witness ==
    /\ ppc = "done"
    /\ Len(parsed) >= 1
    /\ Len(parsed) = Cardinality(Delimiters(sqlContent))
    /\ ~IsShortBlock(Trim(queryBlocks[Len(queryBlocks)]))
    /\ IsAccepted(extractQueryInfo(Trim(queryBlocks[Len(queryBlocks)]), queryNumber))

(***************************************************************************)
(* C20: noise filter.  Every returned record comes from a block whose      *)
(* trimmed length is at least 50 characters and has a non-empty body of at *)
(* least 10 characters; a block below the block threshold, or whose body   *)
(* is empty or below the body threshold, produces no record.               *)
(***************************************************************************)
C20_NoiseFilter ==
    ppc \in {"blocks", "done"} =>
        /\ \A k \in 1..Len(parsed) :
              /\ Length(BlockAt(queryBlocks, accepted[k])) >= 50
              /\ parsed[k].query = QueryBody(BlockAt(queryBlocks, accepted[k]))
              /\ parsed[k].query # <<>>
              /\ Length(parsed[k].query) >= 10
        /\ \A idx \in 0..(blockIndex - 1) :
              ( \/ Length(BlockAt(queryBlocks, idx)) < 50
                \/ QueryBody(BlockAt(queryBlocks, idx)) = <<>>
                \/ Length(QueryBody(BlockAt(queryBlocks, idx))) < 10 )
                  => \A k \in 1..Len(accepted) : accepted[k] # idx

\* a parse that returned a record and dropped a block below the block
\* threshold whose body is long enough, a block without a body and a block
\* whose body is below the body threshold
C20_Witness ==
    /\ ppc = "done"
    /\ Len(parsed) >= 1
    /\ \E idx \in 0..(blockIndex - 1) :
          /\ Length(BlockAt(queryBlocks, idx)) < 50
          /\ Length(QueryBody(BlockAt(queryBlocks, idx))) >= 10
    /\ \E idx \in 0..(blockIndex - 1) :
          /\ Length(BlockAt(queryBlocks, idx)) >= 50
          /\ QueryBody(BlockAt(queryBlocks, idx)) = <<>>
    /\ \E idx \in 0..(blockIndex - 1) :
          /\ Length(BlockAt(queryBlocks, idx)) >= 50
          /\ QueryBody(BlockAt(queryBlocks, idx)) # <<>>
          /\ Length(QueryBody(BlockAt(queryBlocks, idx))) < 10

\* start of the first line of a block that is neither blank nor a comment
\* line; 0 when the block has no such line
FirstSqlLine(block) ==
    LET sqlLines == { p \in LineStarts(block) :
                        LET trimmedLine == Trim(LineAt(block, p))
                        IN trimmedLine # <<>> /\ Cls(trimmedLine[1]) # "dashes" }
    IN IF sqlLines = {} THEN 0
       ELSE CHOOSE p \in sqlLines : \A q \in sqlLines : p <= q

(***************************************************************************)
(* C25: the query body of a record starts at the first line of its block   *)
(* that is neither blank nor a comment line: no line before that line is   *)
(* part of it, only the indentation of that line is dropped, and from      *)
(* there the body is the block up to its end, blank lines and comment      *)
(* lines included, verbatim and in order.                                  *)
(***************************************************************************)
C25_BodyExtraction ==
    \A k \in 1..Len(parsed) :
        LET block == BlockAt(queryBlocks, accepted[k])
            body == parsed[k].query
            first == FirstSqlLine(block)
            start == Len(block) - Len(body) + 1
        IN /\ first > 0
           /\ start >= first
           /\ \A p \in first..(start - 1) : Cls(block[p]) = "space"
           /\ body = SubSeq(block, start, Len(block))

\* a record whose block has a leading comment line and an indented first
\* body line, and a record with leading lines before its body and a blank
\* line and a comment line inside it
C25_Witness ==
    /\ ppc = "done"
    /\ \E k \in 1..Len(parsed) :
          LET block == BlockAt(queryBlocks, accepted[k])
          IN /\ FirstSqlLine(block) > 1
             /\ Len(block) - Len(parsed[k].query) + 1 > FirstSqlLine(block)
    /\ \E k \in 1..Len(parsed) :
          LET body == parsed[k].query
          IN /\ FirstSqlLine(BlockAt(queryBlocks, accepted[k])) > 1
             /\ \E p \in 2..Len(body) :
                   /\ Cls(body[p]) = "dashes"
                   /\ Cls(body[p - 1]) = "newline"
             /\ \E p \in 2..Len(body) :
                   /\ Cls(body[p]) = "newline"
                   /\ Cls(body[p - 1]) = "newline"

(***************************************************************************)
(* C26: metadata of a record.  When the annotation pattern matches in the  *)
(* block, the description is the trimmed text of the parenthesized         *)
(* description and the name equals the description; when it does not, the  *)
(* name is 'Query <n>' with n the record's own sequence number, the        *)
(* description is the generated one and the section is 'General' whatever  *)
(* the body contains.                                                      *)
(***************************************************************************)
C26_MetadataDefaults ==
    \A k \in 1..Len(parsed) :
        LET block == BlockAt(queryBlocks, accepted[k])
            record == parsed[k]
        IN IF PatternMatches(block) # {}
             THEN /\ record.description = block[FirstMatch(block)[3]].d
                  /\ record.description # <<>>
                  /\ Trim(record.description) = record.description
                  /\ record.name = record.description
             ELSE /\ Len(record.name) = 1
                  /\ record.name[1].s = "Query " \o ToString(record.queryNumber)
                  /\ record.queryNumber = k
                  /\ Len(record.description) = 1
                  /\ record.description[1].s = "SQL Server diagnostic query"
                  /\ record.section = "General"

\* an annotated record, and after it a record without annotation whose
\* body names a catalog view of the content rules
C26_Witness ==
    /\ ppc = "done"
    /\ \E k, l \in 1..Len(parsed) :
          /\ k < l
          /\ PatternMatches(BlockAt(queryBlocks, accepted[k])) # {}
          /\ parsed[k].name[1].s = "Top Waits"
          /\ PatternMatches(BlockAt(queryBlocks, accepted[l])) = {}
          /\ Includes(parsed[l].query, "sys.databases")
          /\ parsed[l].name[1].s = "Query " \o ToString(l)

(***************************************************************************)
(* Version values.  A JS number n is Ver(n, ""); a string key such as      *)
(* '2016SP2' is Ver(2016, "SP2"): the integer parseInt reads off its front *)
(* and the rest of the string.                                             *)
(***************************************************************************)
Ver(n, s) == [n |-> n, s |-> s]

Year(n) == Ver(n, "")

\* the value `undefined`
NoVersion == Ver(0, "undefined")

\* the value of a string without a leading number, such as 'latest'
NoNumber(s) == Ver(0, s)

\* parseInt(version); NaN is held as 0, which like NaN fails every test
\* `versionNum >= k` of mapVersionToKey
ParseInt(version) == version.n

\* isNaN(version): a string with a suffix does not convert to a number
IsNaN(version) == version.s # ""

\* `num <= version` for a number num: a comparison with NaN is false
NumLeq(num, version) == ~IsNaN(version) /\ num <= version.n

\* Object.keys(this.queryPackFiles): integer-like keys ascending, then the
\* string keys in insertion order
ObjectKeys ==
    << Year(2005), Year(2008), Year(2012), Year(2014), Year(2016), Year(2017),
       Year(2019), Year(2022), Year(2025),
       Ver(2016, "SP2"), Ver(2008, "R2"), Ver(2008, "STD") >>

PackKeys == { ObjectKeys[p] : p \in 1..Len(ObjectKeys) }

\* this.queryPackFiles: key -> filename
queryPackFiles ==
    [ key \in PackKeys |-> "sql-server-" \o ToString(key.n) \o key.s \o "-queries.sql" ]

\* this.fallbackUrls: key -> url
fallbackUrls ==
    [ key \in PackKeys |-> "https://www.dropbox.com/" \o ToString(key.n) \o key.s ]

(***************************************************************************)
(* QueryParser.mapVersionToKey.                                            *)
(***************************************************************************)
\* variant: the thresholds 14 and 13 give each other's year
mapVersionToKeySwapped(version) ==
    LET versionNum == ParseInt(version)
    IN IF versionNum >= 2005 /\ versionNum <= 2025 THEN Year(versionNum)
       ELSE IF versionNum >= 17 THEN Year(2025)
       ELSE IF versionNum >= 16 THEN Year(2022)
       ELSE IF versionNum >= 15 THEN Year(2019)
       ELSE IF versionNum >= 14 THEN Year(2016)
       ELSE IF versionNum >= 13 THEN Year(2017)
       ELSE IF versionNum >= 12 THEN Year(2014)
       ELSE IF versionNum >= 11 THEN Year(2012)
       ELSE IF versionNum >= 10 THEN Year(2008)
       ELSE IF versionNum >= 9 THEN Year(2005)
       ELSE Year(2019)

mapVersionToKey(version) ==
    LET versionNum == ParseInt(version)
    IN IF versionNum >= 2005 /\ versionNum <= 2025 THEN Year(versionNum)
       ELSE IF versionNum >= 17 THEN Year(2025)
       ELSE IF versionNum >= 16 THEN Year(2022)
       ELSE IF versionNum >= 15 THEN Year(2019)
       ELSE IF versionNum >= 14 THEN Year(2017)
       ELSE IF versionNum >= 13 THEN Year(2016)
       ELSE IF versionNum >= 12 THEN Year(2014)
       ELSE IF versionNum >= 11 THEN Year(2012)
       ELSE IF versionNum >= 10 THEN Year(2008)
       ELSE IF versionNum >= 9 THEN Year(2005)
       ELSE Year(2019)

(***************************************************************************)
(* The query-packs directory.                                              *)
(***************************************************************************)
File(exists, readable, content) ==
    [exists |-> exists, readable |-> readable, content |-> content]

Missing == File(FALSE, FALSE, <<>>)

\* the file is there, readFile rejects
Unreadable == File(TRUE, FALSE, <<>>)

\* fs.existsSync / fs.pathExists of the file of a key
FileExists(fsys, key) == fsys[queryPackFiles[key]].exists

(***************************************************************************)
(* QueryParser.getClosestAvailableVersion.                                 *)
(***************************************************************************)
\* Array.prototype.sort with (a, b) => parseInt(b) - parseInt(a): descending,
\* and stable, so equal integers keep their order
SortDescending(versions) ==
    LET rank(a) == Cardinality({ b \in 1..Len(versions) :
                       \/ ParseInt(versions[b]) > ParseInt(versions[a])
                       \/ (ParseInt(versions[b]) = ParseInt(versions[a]) /\ b < a) }) + 1
    IN [ r \in 1..Len(versions) |-> versions[CHOOSE a \in 1..Len(versions) : rank(a) = r] ]

\* the keys whose file exists, sorted
AvailableVersions(fsys) ==
    SortDescending(SelectSeq(ObjectKeys, LAMBDA key : FileExists(fsys, key)))

getClosestAvailableVersion(fsys, targetVersion) ==
    LET availableVersions == AvailableVersions(fsys)
        notNewer == { p \in 1..Len(availableVersions) :
                        NumLeq(ParseInt(availableVersions[p]), targetVersion) }
    IN IF notNewer # {}
         THEN availableVersions[CHOOSE p \in notNewer : \A q \in notNewer : p <= q]
       ELSE IF Len(availableVersions) = 0 THEN NoVersion
       ELSE availableVersions[Len(availableVersions)]

(***************************************************************************)
(* QueryParser.parseGlenBerryQueries as a function of the pack text.       *)
(***************************************************************************)
RECURSIVE ParseFrom(_, _, _, _)
\* the loop over the blocks from index idx, with the counter at qn
ParseFrom(blocks, idx, qn, acc) ==
    IF idx >= LoopLimit(blocks) THEN acc
    ELSE IF IsShortBlock(BlockAt(blocks, idx)) THEN ParseFrom(blocks, idx + 1, qn, acc)
    ELSE LET queryInfo == extractQueryInfo(BlockAt(blocks, idx), qn)
         IN ParseFrom(blocks, idx + 1, NextQueryNumber(qn, IsAccepted(queryInfo)),
                      IF IsAccepted(queryInfo)
                        THEN Append(acc, QueryRecord(queryInfo, qn)) ELSE acc)

parseGlenBerryQueries(content) == ParseFrom(SplitBlocks(content), 0, 1, <<>>)

(***************************************************************************)
(* QueryParser.getSampleQueries: the built-in records.                     *)
(***************************************************************************)
Sample(id, name, section, estimatedDuration) ==
    [id |-> id, name |-> name, section |-> section,
     estimatedDuration |-> estimatedDuration]

getSampleQueries ==
    << Sample("version-info", "SQL and OS Version Information", "Instance Information", 1000),
       Sample("server-properties", "Server Properties", "Instance Information", 1000),
       Sample("configuration-values", "Configuration Values", "Instance Information", 2000),
       Sample("hardware-info", "Hardware Information", "Hardware & OS", 1000),
       Sample("memory-usage", "Memory Usage", "Hardware & OS", 1000),
       Sample("database-files", "Database Files", "Database Files", 2000),
       Sample("wait-stats", "Wait Statistics", "Performance", 3000),
       Sample("backup-history", "Backup History", "Maintenance", 2000) >>

(***************************************************************************)
(* Inputs of the loader: the version indicator, the files of the           *)
(* query-packs directory and what a download delivers.                     *)
(***************************************************************************)
\* most pack files present in the query-packs directory
MaxLocalFiles == 3

\* the values passed to loadQueries: years, internal major versions, and a
\* string that is no number
VersionIndicators ==
    { Year(n) : n \in { 0 - 1, 0, 8, 9, 10, 11, 12, 13, 14, 15, 16, 17, 1000000,
                        2005, 2006, 2013, 2016, 2017, 2019, 2026 } }
      \cup { NoNumber("latest") }

\* texts of a pack: empty, no delimiter line, one query
PackContents ==
    { <<>>,
      Text(<< "--", " ", "Get selected server properties", "\n",
         "SELECT SERVERPROPERTY('MachineName') AS [MachineName];", "\n" >>),
      Text(<< "--", " ", "SQL and OS Version information for current instance", " ",
         "(Query 1)", " ", "(Version Info)", "\n",
         "SELECT @@SERVERNAME AS [Server Name], @@VERSION AS [SQL Server and OS Version Info];",
         "\n", "------", "\n" >>) }

\* parseGlenBerryQueries of each text of the pool
ParsedPack == [ content \in PackContents |-> parseGlenBerryQueries(content) ]

\* what can lie under the filename of a pack that is present
PresentFiles == { Unreadable } \cup { File(TRUE, TRUE, c) : c \in PackContents }

\* the keys whose pack may be present
LocalCandidates == { Year(2012), Year(2016), Ver(2016, "SP2"), Year(2019) }

FileSystems ==
    { [ name \in { queryPackFiles[key] : key \in PackKeys } |->
          IF \E key \in DOMAIN present : queryPackFiles[key] = name
            THEN present[CHOOSE key \in DOMAIN present : queryPackFiles[key] = name]
            ELSE Missing ] :
        present \in UNION { [S -> PresentFiles] :
                            S \in { T \in SUBSET LocalCandidates :
                                      Cardinality(T) <= MaxLocalFiles } } }

(***************************************************************************)
(* QueryParser.loadQueries and the pack-loading chain as a state machine.  *)
(* Every recursive call of loadGlenBerryQueries is a `return await`, and   *)
(* loadGlenBerryQueries never rejects, so the innermost invocation's       *)
(* result is the result of the chain.                                      *)
(***************************************************************************)
PackEv(ev, version, key) == [ev |-> ev, version |-> version, key |-> key]

\* loadLocalQueryPack: the content, or <<>> for null
loadLocalQueryPack(fsys, version) ==
    LET versionKey == mapVersionToKey(version)
    IN IF versionKey \notin DOMAIN queryPackFiles THEN <<>>
       ELSE IF ~fsys[queryPackFiles[versionKey]].exists THEN <<>>
       ELSE IF ~fsys[queryPackFiles[versionKey]].readable THEN <<>>
       ELSE fsys[queryPackFiles[versionKey]].content

\* `if (sqlContent)`: null and the empty string are falsy
Truthy(content) == content # <<>>

(***************************************************************************)
(* QueryParser.organizeSections: this.sections as the sequence of its      *)
(* entries [name, queries] in insertion order.                             *)
(***************************************************************************)
\* the labels of the records that are no key of secs, in the order in which
\* the loop meets them first: the keys the loop sets
NewSections(secs, records) ==
    LET isNew(p) == /\ \A e \in 1..Len(secs) : secs[e].name # records[p].section
                    /\ \A q \in 1..(p - 1) : records[q].section # records[p].section
        firsts == { p \in 1..Len(records) : isNew(p) }
    IN [ k \in 1..Cardinality(firsts) |-> records[Kth(firsts, k)].section ]

\* the records pushed to the list of a label, in the order of the loop
WithSection(records, name) == SelectSeq(records, LAMBDA query : query.section = name)

\* the map after the loop over the records was run on the map secs: the
\* entries of secs, then the new keys, each list extended by push
Grouped(secs, records) ==
    [ e \in 1..Len(secs) |->
        [name |-> secs[e].name,
         queries |-> secs[e].queries \o WithSection(records, secs[e].name)] ]
    \o [ k \in 1..Len(NewSections(secs, records)) |->
           [name |-> NewSections(secs, records)[k],
            queries |-> WithSection(records, NewSections(secs, records)[k])] ]

\* variant: the map is not cleared before the loop
organizeSectionsKept(secs, records) == Grouped(secs, records)

\* `this.sections.clear()`, then the loop
organizeSections(secs, records) == Grouped(<<>>, records)

LoaderInit ==
    /\ files \in FileSystems
    /\ requestedVersion \in VersionIndicators
    /\ sqlServerVersion = requestedVersion
    /\ depth = 1
    /\ loadedQueries = <<>>
    /\ thisQueries = <<>>
    /\ packTrace = <<>>
    /\ lpc = "local"
    /\ sections = <<>>
    /\ EngineIdle
    /\ ParserIdle
    /\ ClassifierIdle
    /\ InstanceIdle
    /\ ConnectionIdle

\* loadGlenBerryQueries: the local pack was read and is parsed
LocalPackLoaded ==
    /\ lpc = "local"
    /\ Truthy(loadLocalQueryPack(files, sqlServerVersion))
    /\ loadedQueries' = ParsedPack[loadLocalQueryPack(files, sqlServerVersion)]
    /\ packTrace' = Append(packTrace, PackEv("localHit", sqlServerVersion,
                                             mapVersionToKey(sqlServerVersion)))
    /\ lpc' = "loaded"
    /\ UNCHANGED << files, requestedVersion, sqlServerVersion, depth, thisQueries,
                    sections >>
    /\ UNCHANGED << engineVars, parserVars, classifierVars, instanceVars, connectionVars >>

\* loadGlenBerryQueries: no local content, downloadAndParseQueries is called
LocalPackNotFound ==
    /\ lpc = "local"
    /\ ~Truthy(loadLocalQueryPack(files, sqlServerVersion))
    /\ packTrace' = Append(packTrace, PackEv("localMiss", sqlServerVersion,
                                             mapVersionToKey(sqlServerVersion)))
    /\ lpc' = "download"
    /\ UNCHANGED << files, requestedVersion, sqlServerVersion, depth, loadedQueries,
                    thisQueries, sections >>
    /\ UNCHANGED << engineVars, parserVars, classifierVars, instanceVars, connectionVars >>

\* downloadAndParseQueries: `if (!url) return await this.loadGlenBerryQueries(2019)`
NoFallbackUrl ==
    /\ lpc = "download"
    /\ mapVersionToKey(sqlServerVersion) \notin DOMAIN fallbackUrls
    /\ packTrace' = Append(packTrace, PackEv("noUrl", sqlServerVersion,
                                             mapVersionToKey(sqlServerVersion)))
    /\ sqlServerVersion' = Year(2019)
    /\ depth' = depth + 1
    /\ lpc' = "local"
    /\ UNCHANGED << files, requestedVersion, loadedQueries, thisQueries, sections >>
    /\ UNCHANGED << engineVars, parserVars, classifierVars, instanceVars, connectionVars >>

\* downloadAndParseQueries: `await axios.get(url, ...)` is issued
StartDownload ==
    /\ lpc = "download"
    /\ mapVersionToKey(sqlServerVersion) \in DOMAIN fallbackUrls
    /\ packTrace' = Append(packTrace, PackEv("fetch", sqlServerVersion,
                                             mapVersionToKey(sqlServerVersion)))
    /\ lpc' = "fetching"
    /\ UNCHANGED << files, requestedVersion, sqlServerVersion, depth, loadedQueries,
                    thisQueries, sections >>
    /\ UNCHANGED << engineVars, parserVars, classifierVars, instanceVars, connectionVars >>

\* the download delivers a text, which is parsed
DownloadSucceeds ==
    /\ lpc = "fetching"
    /\ \E data \in PackContents : loadedQueries' = ParsedPack[data]
    /\ packTrace' = Append(packTrace, PackEv("fetched", sqlServerVersion,
                                             mapVersionToKey(sqlServerVersion)))
    /\ lpc' = "loaded"
    /\ UNCHANGED << files, requestedVersion, sqlServerVersion, depth, thisQueries,
                    sections >>
    /\ UNCHANGED << engineVars, parserVars, classifierVars, instanceVars, connectionVars >>

\* the download fails or times out: the catch branch of downloadAndParseQueries
DownloadFails ==
    /\ lpc = "fetching"
    /\ LET fallbackVersion == getClosestAvailableVersion(files, sqlServerVersion)
       IN /\ packTrace' = Append(packTrace, PackEv("closest", sqlServerVersion,
                                                   fallbackVersion))
          /\ IF fallbackVersion # NoVersion /\ fallbackVersion # sqlServerVersion
               THEN /\ sqlServerVersion' = fallbackVersion
                    /\ depth' = depth + 1
                    /\ lpc' = "local"
                    /\ UNCHANGED loadedQueries
               ELSE /\ loadedQueries' = <<>>
                    /\ lpc' = "loaded"
                    /\ UNCHANGED << sqlServerVersion, depth >>
    /\ UNCHANGED << files, requestedVersion, thisQueries, sections >>
    /\ UNCHANGED << engineVars, parserVars, classifierVars, instanceVars, connectionVars >>

\* variant: the result of the chain is returned as it is
QueriesAsLoaded(loaded) == loaded

\* `if (queries.length > 0) this.queries = queries; else this.queries = this.getSampleQueries(...)`
QueriesOrSample(loaded) == IF Len(loaded) > 0 THEN loaded ELSE getSampleQueries

\* loadQueries after the chain returned: the records or the sample set are
\* stored, then organizeSections rebuilds the section index
LoadQueriesReturns ==
    /\ lpc = "loaded"
    /\ thisQueries' = QueriesOrSample(loadedQueries)
    /\ sections' = organizeSections(sections, QueriesOrSample(loadedQueries))
    /\ lpc' = "done"
    /\ UNCHANGED << files, requestedVersion, sqlServerVersion, depth, loadedQueries,
                    packTrace >>
    /\ UNCHANGED << engineVars, parserVars, classifierVars, instanceVars, connectionVars >>

LoaderNext ==
    \/ LocalPackLoaded
    \/ LocalPackNotFound
    \/ NoFallbackUrl
    \/ StartDownload
    \/ DownloadSucceeds
    \/ DownloadFails
    \/ LoadQueriesReturns

LoaderSpec == LoaderInit /\ [][LoaderNext]_vars

\* every await of the chain settles: the file calls return, and the download
\* is issued with a timeout
LoaderFairSpec == LoaderSpec /\ WF_vars(LoaderNext)

(***************************************************************************)
(* C11: loadQueries always returns a non-empty list and never fails        *)
(* because a source is unavailable.  Whatever the local file is (missing,  *)
(* unreadable, empty, without a record), whether the download fails or     *)
(* delivers a text without a record, the call goes on until it returns;    *)
(* it returns the built-in sample set exactly when the pack-loading chain  *)
(* produced zero records, and otherwise exactly the parsed records.        *)
(***************************************************************************)
C11_SampleSetFallback ==
    /\ [](lpc = "done" =>
            /\ Len(thisQueries) > 0
            /\ Len(loadedQueries) = 0 => thisQueries = getSampleQueries
            /\ Len(loadedQueries) > 0 =>
                  (thisQueries = loadedQueries /\ thisQueries # getSampleQueries))
    /\ <>(lpc = "done")

\* the local pack is missing, the download failed, no older pack is there,
\* and loadQueries returned the sample set
C11_Witness ==
    /\ lpc = "done"
    /\ thisQueries = getSampleQueries
    /\ Len(packTrace) = 3
    /\ packTrace[1].ev = "localMiss"
    /\ ~FileExists(files, packTrace[1].key)
    /\ packTrace[3].ev = "closest"
    /\ packTrace[3].key = NoVersion

(***************************************************************************)
(* Reading the history of the chain.                                       *)
(***************************************************************************)
\* the keys whose pack file exists
AvailableKeys(fsys) == { key \in PackKeys : FileExists(fsys, key) }

\* the events at which mapVersionToKey was applied: their key is its result
IsResolution(e) == e.ev \in {"localHit", "localMiss", "noUrl", "fetch", "fetched"}

(***************************************************************************)
(* C12: mapVersionToKey is total and always yields a valid canonical key:  *)
(* for every integer input (negative, 0, a year inside 2005..2025 without  *)
(* a pack such as 2006 or 2013, an absurdly large value) the key it        *)
(* returns is one of the keys of the pack-file table.                      *)
(***************************************************************************)
C12_ResolvedKeyHasPack ==
    \A p \in 1..Len(packTrace) :
        IsResolution(packTrace[p]) =>
            /\ packTrace[p].key = mapVersionToKey(packTrace[p].version)
            /\ packTrace[p].key \in DOMAIN queryPackFiles

(***************************************************************************)
(* C13: getClosestAvailableVersion returns, for every target and every set *)
(* of locally available keys, the greatest available key <= target; when   *)
(* no available key is <= target, the smallest (oldest) available key;     *)
(* when no key is available, none.  With {2012, 2016, 2019} available,     *)
(* target 2017 gives 2016 and target 2005 gives 2012.  Keys are compared   *)
(* by the integer they start with.                                         *)
(***************************************************************************)
C13_ClosestAvailable ==
    \A p \in 1..Len(packTrace) :
        packTrace[p].ev = "closest" =>
            LET target == packTrace[p].version
                result == packTrace[p].key
                available == AvailableKeys(files)
                notNewer == { key \in available : ParseInt(key) <= ParseInt(target) }
            IN /\ available = {} => result = NoVersion
               /\ notNewer # {} =>
                     /\ result \in notNewer
                     /\ \A key \in notNewer : ParseInt(key) <= ParseInt(result)
               /\ (available # {} /\ notNewer = {}) =>
                     /\ result \in available
                     /\ \A key \in available : ParseInt(result) <= ParseInt(key)
               /\ available = {Year(2012), Year(2016), Year(2019)} =>
                     /\ target = Year(2017) => result = Year(2016)
                     /\ target = Year(2005) => result = Year(2012)

(***************************************************************************)
(* C14: resolution order in loadGlenBerryQueries.  Every invocation starts *)
(* with the local file of the resolved key; when that file exists and is   *)
(* readable its content is parsed and no download is attempted; a download *)
(* is attempted only after the local lookup yielded not-found, and the     *)
(* closest-available fallback only after the download failed.              *)
(***************************************************************************)
C14_ResolutionOrder ==
    \A p \in 1..Len(packTrace) :
        LET e == packTrace[p]
            file == IF e.key \in DOMAIN queryPackFiles
                      THEN files[queryPackFiles[e.key]] ELSE Missing
        IN /\ (p = 1 \/ packTrace[IF p = 1 THEN 1 ELSE p - 1].ev \in {"closest", "noUrl"})
                 => e.ev \in {"localHit", "localMiss"}
           /\ e.ev \in {"localHit", "localMiss"} =>
                 /\ e.key = mapVersionToKey(e.version)
                 /\ (file.exists /\ file.readable) <=> e.ev = "localHit"
           /\ e.ev = "localHit" => p = Len(packTrace)
           /\ e.ev = "fetch" =>
                 /\ p > 1
                 /\ packTrace[p - 1] = PackEv("localMiss", e.version, e.key)
                 /\ ~(file.exists /\ file.readable)
           /\ e.ev = "closest" =>
                 /\ p > 1
                 /\ packTrace[p - 1].ev = "fetch"
                 /\ packTrace[p - 1].version = e.version

(***************************************************************************)
(* C15: closest-older fallback.  For every version indicator (a year or an *)
(* internal major version), when the local pack of the resolved key is     *)
(* missing and the download fails, the pack that is loaded is the one of   *)
(* the newest locally available key that is not newer than the resolved    *)
(* key, whenever such a key exists.                                        *)
(***************************************************************************)
C15_ClosestOlderFallback ==
    ( /\ Len(packTrace) >= 3
      /\ packTrace[1].ev = "localMiss"
      /\ packTrace[3].ev = "closest"
      /\ ~FileExists(files, mapVersionToKey(requestedVersion)) ) =>
        LET resolved == mapVersionToKey(requestedVersion)
            chosen == packTrace[3].key
            notNewer == { key \in AvailableKeys(files) : ParseInt(key) <= ParseInt(resolved) }
        IN notNewer # {} =>
              /\ chosen \in notNewer
              /\ \A key \in notNewer : ParseInt(key) <= ParseInt(chosen)
              /\ (Len(packTrace) >= 4 /\ packTrace[4].ev = "localHit") =>
                    queryPackFiles[packTrace[4].key] = queryPackFiles[chosen]

\* fetches of the remote endpoint issued by the load
Fetches == Cardinality({ k \in 1..Len(packTrace) : packTrace[k].ev = "fetch" })

\* times the closest-available fallback was entered
FallbackEntries ==
    Cardinality({ k \in 1..Len(packTrace) :
                    /\ packTrace[k].ev = "closest"
                    /\ packTrace[k].key # NoVersion
                    /\ packTrace[k].key # packTrace[k].version })

\* no download of the load has succeeded
RemoteFailed == \A k \in 1..Len(packTrace) : packTrace[k].ev # "fetched"

(***************************************************************************)
(* C23: the pack-loading chain terminates and does not fan out: with the   *)
(* remote failing, whatever the indicator and the local files are, the     *)
(* load reaches its return, the closest-available fallback is entered at   *)
(* most once and the remote endpoint is fetched at most once.              *)
(***************************************************************************)
C23_ChainDoesNotFanOut ==
    /\ <>(lpc = "done")
    /\ [](RemoteFailed => (Fetches <= 1 /\ FallbackEntries <= 1))

\* the year of an internal major version n >= 9 that is no year itself
ThresholdYear(n) ==
    << 2005, 2008, 2012, 2014, 2016, 2017, 2019, 2022, 2025 >>[(IF n >= 17 THEN 17 ELSE n) - 8]

IsYear(n) == n >= 2005 /\ n <= 2025

MaxCalls == 3

\* pack texts: two labels interleaved, one label, two other labels, no record
InstanceTexts ==
    { Join(<< Text(<< "--", " ", "SQL and OS Version information for current instance", " ",
                      "(Query 1)", " ", "(Version Info)", "\n",
                      "SELECT @@SERVERNAME AS [Server Name], @@VERSION AS [SQL Server and OS Version Info];" >>),
              Text(<< "--", " ", "Isolate top waits for server instance since last restart or wait statistics clear",
                      " ", "(Query 27)", "\n", "( Top Waits )", "\n", "\n",
                      " ", "SELECT wait_type, wait_time_ms FROM sys.dm_os_wait_stats;", "\n", "\n",
                      "--", " ", "short note", "\n", "OPTION (RECOMPILE);" >>),
              Text(<< "--", " ", "SQL and OS Version information for current instance", " ",
                      "(Query 1)", " ", "(Version Info)", "\n",
                      "SELECT @@SERVERNAME AS [Server Name], @@VERSION AS [SQL Server and OS Version Info];" >>) >>),
      Join(<< Text(<< "--", " ", "Isolate top waits for server instance since last restart or wait statistics clear",
                      " ", "(Query 27)", "\n", "( Top Waits )", "\n", "\n",
                      " ", "SELECT wait_type, wait_time_ms FROM sys.dm_os_wait_stats;", "\n", "\n",
                      "--", " ", "short note", "\n", "OPTION (RECOMPILE);" >>) >>),
      Join(<< Text(<< "--", " ", "Get selected server properties", "\n",
                      " ", "SELECT SERVERPROPERTY('MachineName') AS [MachineName];", "\n",
                      "SELECT name FROM sys.databases; DBCC TRACESTATUS (-1);" >>),
              Text(<< "--", " ", "SQL and OS Version information for current instance", " ",
                      "(Query 1)", " ", "(Version Info)", "\n",
                      "SELECT @@SERVERNAME AS [Server Name], @@VERSION AS [SQL Server and OS Version Info];" >>) >>),
      Text(<< "--", " ", "short note", "\n", "SELECT 1 AS one;" >>) }

\* what loadGlenBerryQueries can resolve with: the records of a text
ChainResults == { parseGlenBerryQueries(content) : content \in InstanceTexts }

Call(op, cpos, result) == [op |-> op, pc |-> cpos, result |-> result]

RECURSIVE SumDuration(_)
\* `queries.reduce((sum, q) => sum + q.estimatedDuration, 0)`
SumDuration(records) ==
    IF records = <<>> THEN 0
    ELSE Head(records).estimatedDuration + SumDuration(Tail(records))

\* the array getSections builds from the entries of this.sections
SectionsArray(secs) ==
    [ e \in 1..Len(secs) |->
        [name |-> secs[e].name,
         queryCount |-> Len(secs[e].queries),
         estimatedDuration |-> SumDuration(secs[e].queries)] ]

\* the constructor has run: `this.queries = []; this.sections = new Map()`
InstanceInit ==
    /\ parserCalls = <<>>
    /\ LoaderIdle
    /\ EngineIdle
    /\ ParserIdle
    /\ ClassifierIdle
    /\ ConnectionIdle

\* loadQueries is called and suspended at its await
CallLoadQueries ==
    /\ Len(parserCalls) < MaxCalls
    /\ parserCalls' = Append(parserCalls, Call("loadQueries", "awaiting", <<>>))
    /\ UNCHANGED << loaderVars, engineVars, parserVars, classifierVars, connectionVars >>

\* the chain resolved: loadQueries stores the records or the sample set,
\* rebuilds the index and returns this.queries
LoadQueriesResumes(c) ==
    /\ parserCalls[c].op = "loadQueries"
    /\ parserCalls[c].pc = "awaiting"
    /\ \E loaded \in ChainResults :
         /\ thisQueries' = QueriesOrSample(loaded)
         /\ sections' = organizeSections(sections, QueriesOrSample(loaded))
         /\ parserCalls' = [parserCalls EXCEPT
                              ![c] = Call("loadQueries", "returned", QueriesOrSample(loaded))]
    /\ UNCHANGED << files, requestedVersion, sqlServerVersion, depth, loadedQueries,
                    packTrace, lpc >>
    /\ UNCHANGED << engineVars, parserVars, classifierVars, connectionVars >>

\* getSections is called: `if (this.sections.size === 0) await this.loadQueries(version)`,
\* else the array is built at once
CallGetSections ==
    /\ Len(parserCalls) < MaxCalls
    /\ parserCalls' =
         Append(parserCalls,
                IF Len(sections) = 0
                  THEN Call("getSections", "awaiting", <<>>)
                  ELSE Call("getSections", "returned", SectionsArray(sections)))
    /\ UNCHANGED << loaderVars, engineVars, parserVars, classifierVars, connectionVars >>

\* the loadQueries that getSections awaits resumes and returns
GetSectionsLoads(c) ==
    /\ parserCalls[c].op = "getSections"
    /\ parserCalls[c].pc = "awaiting"
    /\ \E loaded \in ChainResults :
         /\ thisQueries' = QueriesOrSample(loaded)
         /\ sections' = organizeSections(sections, QueriesOrSample(loaded))
    /\ parserCalls' = [parserCalls EXCEPT ![c] = Call("getSections", "loaded", <<>>)]
    /\ UNCHANGED << files, requestedVersion, sqlServerVersion, depth, loadedQueries,
                    packTrace, lpc >>
    /\ UNCHANGED << engineVars, parserVars, classifierVars, connectionVars >>

\* getSections continues after its await and builds the array
GetSectionsReturns(c) ==
    /\ parserCalls[c].op = "getSections"
    /\ parserCalls[c].pc = "loaded"
    /\ parserCalls' = [parserCalls EXCEPT
                         ![c] = Call("getSections", "returned", SectionsArray(sections))]
    /\ UNCHANGED << loaderVars, engineVars, parserVars, classifierVars, connectionVars >>

InstanceNext ==
    \/ CallLoadQueries
    \/ \E c \in 1..Len(parserCalls) : LoadQueriesResumes(c)
    \/ CallGetSections
    \/ \E c \in 1..Len(parserCalls) : GetSectionsLoads(c)
    \/ \E c \in 1..Len(parserCalls) : GetSectionsReturns(c)

InstanceSpec == InstanceInit /\ [][InstanceNext]_vars

(***************************************************************************)
(* C27: in every reachable state of a QueryParser instance, after any      *)
(* sequence of loadQueries calls and at every suspension point of          *)
(* loadQueries calls that run concurrently on the instance, the section    *)
(* index is exactly the grouping of the current record list by label:      *)
(* every current record is in exactly one list, that of its label, in      *)
(* record order; no list is empty; no record of an earlier load remains.   *)
(***************************************************************************)
C27_SectionIndexConsistent ==
    /\ \A e \in 1..Len(sections) :
         /\ sections[e].queries # <<>>
         /\ sections[e].queries =
              SelectSeq(thisQueries, LAMBDA query : query.section = sections[e].name)
         /\ \A f \in 1..Len(sections) : sections[f].name = sections[e].name => f = e
    /\ \A k \in 1..Len(thisQueries) :
         \E e \in 1..Len(sections) : sections[e].name = thisQueries[k].section

\* a load has returned records that are no longer the current ones, another
\* call is suspended, and a list of the index holds two records that are
\* not neighbours in the record list
C27_Witness ==
    /\ \E c \in 1..Len(parserCalls) :
         /\ parserCalls[c].op = "loadQueries"
         /\ parserCalls[c].pc = "returned"
         /\ parserCalls[c].result # thisQueries
    /\ \E c \in 1..Len(parserCalls) : parserCalls[c].pc = "awaiting"
    /\ \E e \in 1..Len(sections) :
         /\ Len(sections[e].queries) = 2
         /\ \E k \in 1..Len(thisQueries) :
              /\ thisQueries[k] = sections[e].queries[1]
              /\ thisQueries[k + 1].section # sections[e].name

(***************************************************************************)
(* The classifier functions applied to drawn arguments: categorizeQuery    *)
(* to a description and a block, estimateQueryDuration to a query text,    *)
(* extractQueryInfo to two blocks.                                         *)
(***************************************************************************)
\* descriptions as the annotation of a block gives them
Descriptions ==
    { Text(<< d >>) : d \in
    { "Version Info", "Configuration Values", "Hardware Info", "CPU Usage by Database",
      "Last Backup By Database", "Index Fragmentation", "Wait Statistics", "Top Waits",
      "Database Properties", "Login Count", "AlwaysOn AG Cluster",
      "SQL Server Agent Jobs", "Agent Alerts", "Ad hoc Queries" } }

ClassifierBlocks ==
    { \* no keyword of a content rule anywhere
      Text(<< "--", " ", "Look at ad hoc query counts", " ", "(Query 27)", " ",
         "(Ad hoc Queries)", "\n", "SELECT 1 AS one;" >>),
      \* the same description and body under another comment line
      Text(<< "--", " ", "reads sys.databases", " ", "(Query 27)", " ",
         "(Ad hoc Queries)", "\n", "SELECT 1 AS one;" >>),
      \* content keywords of two rules in the body
      Text(<< "--", " ", "short note", " ", "(Query 27)", " ", "(Ad hoc Queries)", "\n",
         "SELECT name FROM sys.databases; DBCC TRACESTATUS (-1);" >>),
      Text(<< "--", " ", "short note", " ", "(Query 27)", " ", "(Login Count)", "\n",
         "SELECT d.name, w.wait_type FROM sys.databases AS d CROSS JOIN sys.dm_os_wait_stats AS w;" >>),
      Text(<< "--", " ", "short note", " ", "(Query 1)", "\n", "(Wait Statistics)", "\n",
         "DBCC SQLPERF(LOGSPACE);" >>),
      \* no annotation
      Text(<< "--", " ", "Get selected server properties", "\n",
         "SELECT SERVERPROPERTY('MachineName') AS [MachineName];" >>) }

\* query texts as extractQueryInfo returns them
QueryTexts ==
    { Text(<< "SELECT 1 AS one;" >>),
      Text(<< "SELECT @@SERVERNAME AS [Server Name], @@VERSION AS [SQL Server and OS Version Info];" >>),
      Text(<< "SELECT SERVERPROPERTY('ServerName') AS [Server Name], wait_type FROM sys.dm_os_wait_stats;" >>),
      Text(<< "SELECT wait_type, wait_time_ms FROM sys.dm_os_wait_stats;", "\n",
         "OPTION (RECOMPILE);" >>),
      Text(<< "SELECT * FROM sys.dm_db_index_usage_stats AS s CROSS JOIN sys.dm_db_index_physical_stats(DB_ID(), NULL, NULL, NULL, 'LIMITED') AS ps;" >>),
      Text(<< "SELECT COUNT(*) AS [Buffer Count] FROM sys.dm_os_buffer_descriptors;" >>),
      Text(<< "SELECT t.[text] FROM sys.dm_os_buffer_descriptors AS b CROSS APPLY sys.dm_exec_sql_text(b.page_id) AS t;" >>),
      Text(<< "SELECT t.[text] FROM sys.dm_exec_requests AS r CROSS APPLY sys.dm_exec_sql_text(r.sql_handle) AS t;" >>),
      Text(<< "SELECT * FROM sys.dm_exec_requests AS r CROSS APPLY sys.dm_exec_query_plan(r.plan_handle);",
         "\n", "SELECT [text] FROM sys.dm_exec_sql_text(@handle);" >>),
      Text(<< "SELECT qs.total_worker_time FROM sys.dm_exec_query_stats AS qs CROSS APPLY sys.dm_exec_sql_text(qs.plan_handle) AS t;" >>),
      Text(<< "SELECT * FROM sys.dm_exec_requests AS r CROSS APPLY sys.dm_exec_query_plan(r.plan_handle);" >>),
      Text(<< "SELECT [text] FROM sys.dm_exec_sql_text(@handle);" >>) }

ClassifierInit ==
    /\ inDescription \in Descriptions
    /\ inBlockA \in ClassifierBlocks
    /\ inBlockB \in ClassifierBlocks
    /\ inQuery \in QueryTexts
    /\ outSection = ""
    /\ outDuration = 0
    /\ outInfoA = Null
    /\ outInfoB = Null
    /\ cpc = "categorize"
    /\ EngineIdle
    /\ ParserIdle
    /\ LoaderIdle
    /\ InstanceIdle
    /\ ConnectionIdle

\* categorizeQuery(inDescription, inBlockA) returns
Categorize ==
    /\ cpc = "categorize"
    /\ outSection' = categorizeQuery(inDescription, inBlockA)
    /\ cpc' = "estimate"
    /\ UNCHANGED << inDescription, inBlockA, inBlockB, inQuery, outDuration,
                    outInfoA, outInfoB >>
    /\ UNCHANGED << engineVars, parserVars, loaderVars, instanceVars, connectionVars >>

\* estimateQueryDuration(inQuery) returns
Estimate ==
    /\ cpc = "estimate"
    /\ outDuration' = estimateQueryDuration(inQuery)
    /\ cpc' = "extract"
    /\ UNCHANGED << inDescription, inBlockA, inBlockB, inQuery, outSection,
                    outInfoA, outInfoB >>
    /\ UNCHANGED << engineVars, parserVars, loaderVars, instanceVars, connectionVars >>

\* extractQueryInfo returns for each of the two blocks
Extract ==
    /\ cpc = "extract"
    /\ outInfoA' = extractQueryInfo(inBlockA, 1)
    /\ outInfoB' = extractQueryInfo(inBlockB, 1)
    /\ cpc' = "done"
    /\ UNCHANGED << inDescription, inBlockA, inBlockB, inQuery, outSection,
                    outDuration >>
    /\ UNCHANGED << engineVars, parserVars, loaderVars, instanceVars, connectionVars >>

ClassifierNext ==
    \/ Categorize
    \/ Estimate
    \/ Extract

ClassifierSpec == ClassifierInit /\ [][ClassifierNext]_vars

(***************************************************************************)
(* The rule tables of categorizeQuery and the tiers of                     *)
(* estimateQueryDuration, in the order of the source.                      *)
(***************************************************************************)
Rule(keywords, label) == [keywords |-> keywords, label |-> label]

DescriptionRules ==
    << Rule({"version", "server properties", "configuration"}, "Instance Information"),
       Rule({"memory", "hardware", "cpu", "numa"}, "Hardware & OS"),
       Rule({"backup", "maintenance", "statistics", "fragmentation"}, "Maintenance"),
       Rule({"wait", "performance", "execution", "expensive"}, "Performance"),
       Rule({"database", "file", "table", "index"}, "Database Objects"),
       Rule({"security", "login", "permission"}, "Security"),
       Rule({"alwayson", "cluster", "availability"}, "High Availability"),
       Rule({"job", "agent", "alert"}, "SQL Server Agent") >>

ContentRules ==
    << Rule({"sys.dm_os_wait_stats", "sys.dm_exec_query_stats"}, "Performance"),
       Rule({"sys.databases", "sys.master_files"}, "Database Objects"),
       Rule({"msdb.dbo.backupset", "dbcc"}, "Maintenance") >>

\* the rules of a table that match
MatchingDescriptionRules(description) ==
    { r \in 1..Len(DescriptionRules) :
        DescIncludes(description, DescriptionRules[r].keywords) }

MatchingContentRules(block) ==
    { r \in 1..Len(ContentRules) : ContentIncludes(block, ContentRules[r].keywords) }

\* the tiers a query text matches: 1 quick, 2 medium, 3 physical stats,
\* 4 cross apply together with sys.dm_exec_sql_text
MatchingTiers(query) ==
    { tier \in 1..4 :
        \/ tier = 1 /\ ContentIncludes(query, {"@@version", "serverproperty",
                                                "sys.configurations"})
        \/ tier = 2 /\ ContentIncludes(query, {"sys.dm_os_wait_stats",
                                                "sys.dm_exec_query_stats",
                                                "sys.dm_db_index_usage_stats"})
        \/ tier = 3 /\ ContentIncludes(query, {"sys.dm_db_index_physical_stats",
                                                "sys.dm_os_buffer_descriptors"})
        \/ tier = 4 /\ Includes(query, "cross apply")
                    /\ Includes(query, "sys.dm_exec_sql_text") }

TierDurations == << 500, 2000, 5000, 10000 >>

\* the least element of a non-empty set of indices
First(S) == CHOOSE r \in S : \A o \in S : r <= o

(***************************************************************************)
(* C16: categorizeQuery is first-match-wins over an ordered table.  The    *)
(* label is that of the first description rule (Instance Information,      *)
(* Hardware & OS, Maintenance, Performance, Database Objects, Security,    *)
(* High Availability, SQL Server Agent) whose keyword occurs in the        *)
(* lower-cased description; the content rules (Performance, Database       *)
(* Objects, Maintenance) are consulted only when no description rule       *)
(* matches; the result is 'General' only when no rule of either table      *)
(* matches, and it is never empty.                                         *)
(***************************************************************************)
C16_FirstMatchWins ==
    cpc \in {"estimate", "extract", "done"} =>
        LET byDescription == MatchingDescriptionRules(inDescription)
            byContent == MatchingContentRules(inBlockA)
        IN /\ outSection # ""
           /\ byDescription # {} =>
                 outSection = DescriptionRules[First(byDescription)].label
           /\ (byDescription = {} /\ byContent # {}) =>
                 outSection = ContentRules[First(byContent)].label
           /\ outSection = "General" <=> (byDescription = {} /\ byContent = {})

\* a description that matches the Maintenance and the Performance rule, with
\* a block that matches a content rule, was given the label Maintenance
C16_Witness ==
    /\ cpc = "done"
    /\ {3, 4} \subseteq MatchingDescriptionRules(inDescription)
    /\ MatchingContentRules(inBlockA) # {}
    /\ outSection = "Maintenance"

(***************************************************************************)
(* C17: the section of a record is a function of its description and its   *)
(* extracted body only: two blocks that yield the same description and the *)
(* same body get the same section, whatever their leading comment lines.   *)
(***************************************************************************)
C17_SectionFromDescriptionAndBody ==
    ( /\ cpc = "done"
      /\ outInfoA # Null
      /\ outInfoB # Null
      /\ outInfoA.description = outInfoB.description
      /\ outInfoA.query = outInfoB.query ) =>
        outInfoA.section = outInfoB.section

(***************************************************************************)
(* C18: estimateQueryDuration is an ordered tier table over the lower-     *)
(* cased body: a quick-marker keyword gives 500; else a medium-cost        *)
(* keyword 2000; else a physical-stats keyword 5000; else 'cross apply'    *)
(* together with 'sys.dm_exec_sql_text' 10000; else 3000.  The result is   *)
(* one of 500, 2000, 3000, 5000, 10000 and an earlier tier wins.           *)
(***************************************************************************)
C18_DurationTiers ==
    cpc \in {"extract", "done"} =>
        /\ outDuration \in {500, 2000, 3000, 5000, 10000}
        /\ MatchingTiers(inQuery) # {} =>
              outDuration = TierDurations[First(MatchingTiers(inQuery))]
        /\ MatchingTiers(inQuery) = {} => outDuration = 3000

\* a text that matches the medium tier and the combination tier got 2000
C18_Witness ==
    /\ cpc = "done"
    /\ MatchingTiers(inQuery) = {2, 4}
    /\ outDuration = 2000

(***************************************************************************)
(* ConnectionManager: one instance under any sequence of calls of          *)
(* connect, getServerInfo, executeQuery and disconnect.  Each method runs  *)
(* up to its await; what it awaited settles in a later step, so calls      *)
(* overlap.  The logger calls do not throw.                                *)
(***************************************************************************)
\* most method calls made on the instance
MaxOperations == 4

NotConnectedMessage == "Not connected to SQL Server"

ConnectionFailedMessage == "Connection failed: Login failed for user"

\* an await in flight: of sql.connect, of a query on the pool, of pool.close
Await(op, id) == [op |-> op, id |-> id]

\* history: what a call or a settled await did; connected is this.isConnected
\* before the step, after is its value after it, raised the message of the
\* error the method rejected with ("" for none)
ConnEv(ev, op, id, connected, after, raised) ==
    [ev |-> ev, op |-> op, id |-> id, connected |-> connected, after |-> after,
     raised |-> raised]

\* variant: the guard reads the pool, `if (!this.pool)`
RefusesWithoutPool(connected, p) == p = 0

\* `if (!this.isConnected) throw new Error('Not connected to SQL Server')`
Refuses(connected, p) == ~connected

\* the constructor has run: `this.pool = null; this.isConnected = false`
ConnectionInit ==
    /\ ConnectionIdle
    /\ EngineIdle
    /\ ParserIdle
    /\ LoaderIdle
    /\ ClassifierIdle
    /\ InstanceIdle

\* connect: the configuration is built and `await sql.connect(...)` is issued
Connect ==
    /\ started < MaxOperations
    /\ started' = started + 1
    /\ pending' = pending \cup { Await("connect", started + 1) }
    /\ UNCHANGED << isConnected, pool, connTrace >>
    /\ UNCHANGED << engineVars, parserVars, loaderVars, classifierVars, instanceVars >>

\* sql.connect resolved: `this.pool = ...; this.isConnected = true`
ConnectResolves(a) ==
    /\ a.op = "connect"
    /\ pool' = a.id
    /\ isConnected' = TRUE
    /\ pending' = pending \ { a }
    /\ connTrace' = Append(connTrace,
                           ConnEv("connected", "connect", a.id, isConnected, TRUE, ""))
    /\ UNCHANGED started
    /\ UNCHANGED << engineVars, parserVars, loaderVars, classifierVars, instanceVars >>

\* sql.connect rejected: the catch branch throws `Connection failed: ...`
ConnectRejects(a) ==
    /\ a.op = "connect"
    /\ pending' = pending \ { a }
    /\ connTrace' = Append(connTrace,
                           ConnEv("connectFailed", "connect", a.id, isConnected,
                                  isConnected, ConnectionFailedMessage))
    /\ UNCHANGED << isConnected, pool, started >>
    /\ UNCHANGED << engineVars, parserVars, loaderVars, classifierVars, instanceVars >>

\* getServerInfo and executeQuery: the guard, then the request on the pool
CallQuery(op) ==
    /\ started < MaxOperations
    /\ started' = started + 1
    /\ IF Refuses(isConnected, pool)
         THEN /\ connTrace' = Append(connTrace,
                                     ConnEv("refused", op, started + 1, isConnected,
                                            isConnected, NotConnectedMessage))
              /\ UNCHANGED pending
         ELSE /\ connTrace' = Append(connTrace,
                                     ConnEv("request", op, started + 1, isConnected,
                                            isConnected, ""))
              /\ pending' = pending \cup { Await(op, started + 1) }
    /\ UNCHANGED << isConnected, pool >>
    /\ UNCHANGED << engineVars, parserVars, loaderVars, classifierVars, instanceVars >>

GetServerInfo == CallQuery("getServerInfo")

ExecuteQuery == CallQuery("executeQuery")

\* the request settled: the method returns the rows or rejects; no field of
\* the instance is written
QuerySettles(a) ==
    /\ a.op \in { "getServerInfo", "executeQuery" }
    /\ pending' = pending \ { a }
    /\ UNCHANGED << isConnected, pool, started, connTrace >>
    /\ UNCHANGED << engineVars, parserVars, loaderVars, classifierVars, instanceVars >>

\* disconnect: `if (this.pool)` then `await this.pool.close()`; without a
\* pool the method returns at once
Disconnect ==
    /\ started < MaxOperations
    /\ started' = started + 1
    /\ IF pool # 0
         THEN /\ pending' = pending \cup { Await("close", started + 1) }
              /\ UNCHANGED connTrace
         ELSE /\ connTrace' = Append(connTrace,
                                     ConnEv("noPool", "disconnect", started + 1,
                                            isConnected, isConnected, ""))
              /\ UNCHANGED pending
    /\ UNCHANGED << isConnected, pool >>
    /\ UNCHANGED << engineVars, parserVars, loaderVars, classifierVars, instanceVars >>

\* pool.close resolved: `this.isConnected = false`
CloseResolves(a) ==
    /\ a.op = "close"
    /\ isConnected' = FALSE
    /\ pending' = pending \ { a }
    /\ connTrace' = Append(connTrace,
                           ConnEv("closed", "disconnect", a.id, isConnected, FALSE, ""))
    /\ UNCHANGED << pool, started >>
    /\ UNCHANGED << engineVars, parserVars, loaderVars, classifierVars, instanceVars >>

\* pool.close rejected: the catch branch logs and the method returns
CloseRejects(a) ==
    /\ a.op = "close"
    /\ pending' = pending \ { a }
    /\ connTrace' = Append(connTrace,
                           ConnEv("closeFailed", "disconnect", a.id, isConnected,
                                  isConnected, ""))
    /\ UNCHANGED << isConnected, pool, started >>
    /\ UNCHANGED << engineVars, parserVars, loaderVars, classifierVars, instanceVars >>

ConnectionNext ==
    \/ Connect
    \/ \E a \in pending : ConnectResolves(a)
    \/ \E a \in pending : ConnectRejects(a)
    \/ GetServerInfo
    \/ ExecuteQuery
    \/ \E a \in pending : QuerySettles(a)
    \/ Disconnect
    \/ \E a \in pending : CloseResolves(a)
    \/ \E a \in pending : CloseRejects(a)

ConnectionSpec == ConnectionInit /\ [][ConnectionNext]_vars

(***************************************************************************)
(* C30: isConnected is true only between a successful connect and the      *)
(* next successful disconnect.  In every state where it is false (before   *)
(* any successful connect, after a failed connect, after a completed       *)
(* disconnect) executeQuery and getServerInfo raise 'Not connected to SQL  *)
(* Server' and issue no request to the pool.  A disconnect whose pool      *)
(* close fails leaves isConnected as it was and does not raise.            *)
(***************************************************************************)
C30_ConnectionState ==
    /\ isConnected =>
         \E k \in 1..Len(connTrace) :
           /\ connTrace[k].ev = "connected"
           /\ \A j \in (k + 1)..Len(connTrace) : connTrace[j].ev # "closed"
    /\ \A k \in 1..Len(connTrace) :
         (/\ connTrace[k].op \in { "executeQuery", "getServerInfo" }
          /\ ~connTrace[k].connected)
           => /\ connTrace[k].raised = "Not connected to SQL Server"
              /\ connTrace[k].ev # "request"
              /\ \A a \in pending : a.id # connTrace[k].id
    /\ \A a \in pending :
         a.op \in { "executeQuery", "getServerInfo" }
           => \E k \in 1..Len(connTrace) :
                /\ connTrace[k].id = a.id
                /\ connTrace[k].ev = "request"
                /\ connTrace[k].connected
    /\ \A k \in 1..Len(connTrace) :
         connTrace[k].ev = "closeFailed"
           => /\ connTrace[k].after = connTrace[k].connected
              /\ connTrace[k].raised = ""

\* a connect succeeded, a close failed and left the instance connected, a
\* later close succeeded, and a query called after it was refused while the
\* pool is still set
C30_Witness ==
    /\ \E k \in 1..Len(connTrace) :
         /\ connTrace[k].ev = "closeFailed"
         /\ connTrace[k].connected
         /\ \E j \in (k + 1)..Len(connTrace) :
              /\ connTrace[j].ev = "closed"
              /\ \E m \in (j + 1)..Len(connTrace) :
                   /\ connTrace[m].ev = "refused"
                   /\ connTrace[m].raised = "Not connected to SQL Server"
    /\ pool # 0
    /\ ~isConnected

====
